---- MODULE Spec2Model ----
(***************************************************************************)
(* Admission control and synthetic-payload generation of the speed-test    *)
(* server: the sliding-window ClientLimiter (internal/ratelimit), the      *)
(* ConcurrentRequestLimiter gate (internal/middleware), the Download and   *)
(* Upload handlers and the chunked download (internal/handlers).           *)
(*                                                                         *)
(* Time is counted in minutes (time.Minute = 1).                           *)
(***************************************************************************)
EXTENDS Integers, Sequences, FiniteSets, TLC

\* ------------------------------------------------------------------ bounds
\* Largest TotalRequests a record reaches.
MaxTotal == 2
\* Largest ActiveTests a record reaches through direct API calls.
MaxActive == 1

\* Number of request slots.
NumReqs == 3
\* Largest total size of a chunked download.
MaxSize == 6
\* Largest number of chunks of a chunked download (the program allows 10).
MaxChunks == 3
\* config.MaxUploadSize, in bytes (the program uses 100 MiB).
UploadLimit == 5
\* Goroutines that call IsAllowed at the same time.
NumCallers == 3
\* Number of values of a uint32 (the program's is 2^32).
Uint32Range == 3
\* Download's defaults and the most chunks it accepts
DefaultSize == 52428800
DefaultChunks == 1
DefaultChunkSize == 1048576
ChunksCap == 10
\* Length of downloadSingle's buffer (the program uses 8192).
BufferLen == 3
\* Largest value of the machine integer the sizes are computed in: int64 is
\* modelled by the integers -(IntMax + 1) .. IntMax with wrap-around.
IntMax == 15

\* ------------------------------------------------------- program constants
\* GetStats: client.LastSeen.After(now.Add(-5 * time.Minute))
ActiveHorizon == 5
\* client.BlockedUntil = now.Add(5 * time.Minute)
BlockDuration == 5
\* cutoff := now.Add(-24 * time.Hour)
Retention == 1440
\* cleanupInterval: 10 * time.Minute
CleanupInterval == 10
\* the zero time.Time of a field that was never set
ZeroTime == -1

\* ------------------------------------------------------------ input domains
IPs == {"a", "b"}
\* the clients the operator may put on the whitelist
Whitelistable == {"b"}
\* the client whose calls are recorded: one that is never whitelisted
Observed == "a"
\* <<globalLimit, perClientLimit, timeWindow>>: the server's shape (window of
\* time.Minute, cooldown longer than the window), a global limit below the sum
\* of the per-client limits, a window longer than the cooldown, a window longer
\* than the retention horizon, and a per-client limit of zero
Configs == {<<3, 2, 1>>, <<1, 1, 1>>, <<3, 1, BlockDuration + 1>>,
            <<3, 1, 2 * Retention>>, <<3, 0, 1>>}
\* the configurations UpdateLimits moves between
Reconfigs == {<<3, 2, 1>>, <<1, 1, 1>>, <<3, 1, BlockDuration + 1>>}
\* the instants at which the clock is read: construction, one minute later
\* (outside the shortest window, inside a cooldown set at 0), the end of a
\* cooldown set at 0 (still inside one set at 1), and an instant beyond the
\* retention horizon that is a multiple of the cleanup interval
LongSleep == Retention + CleanupInterval
Instants == {0, 1, BlockDuration, LongSleep}

\* config.MaxConcurrentRequests
MaxConcurrentRequests == 0
\* capacities handed to NewConcurrentRequestLimiter
GateSizes == {-1, 0, 1, 2}
\* the requests sent: a plain gated route (ping stands for ip, healthz,
\* version, config, ...), the same with an Upgrade: websocket header, a
\* WebSocket handshake on /ws, and the two test routes
PlainKinds == {[route |-> "ping", ip |-> "a", upgrade |-> FALSE],
               [route |-> "ping", ip |-> "a", upgrade |-> TRUE],
               [route |-> "ws", ip |-> "a", upgrade |-> TRUE]}
TestKinds == {[route |-> "download", ip |-> "a", upgrade |-> FALSE],
              [route |-> "download", ip |-> "b", upgrade |-> FALSE],
              [route |-> "upload", ip |-> "a", upgrade |-> FALSE]}
\* a test route asked for with and without an Upgrade: websocket header
HeaderKinds == {[route |-> "download", ip |-> "a", upgrade |-> FALSE],
                [route |-> "download", ip |-> "a", upgrade |-> TRUE],
                [route |-> "upload", ip |-> "b", upgrade |-> TRUE]}
\* query strings, as sequences of characters; <<>> is an absent parameter
SizeStrs == {<<>>, <<"0">>, <<"6">>, <<"x">>}
ChunksStrs == {<<>>, <<"x">>, <<"0">>, <<"-", "1">>, <<"1">>, <<"2">>, <<"1", "0">>,
               <<"1", "1">>, <<"5", "0">>, <<"2", ".", "5">>}
ChunkSizeStrs == {<<>>, <<"-", "3">>, <<"3">>, <<"+", "4">>}
\* the lengths of an upload's body: up to two bytes over the limit
BodySizes == 0 .. (UploadLimit + 2)
\* the sizes of a single-stream download: up to three buffers
SingleSizes == 1 .. (3 * BufferLen)
\* the parameters of a chunked download
Sizes == 1 .. MaxSize
ChunkCounts == 2 .. MaxChunks
MinChunkSizes == {1, 2, 3, IntMax}

VARIABLES
  \* ClientLimiter
  clients,          \* cl.clients: ip -> ClientInfo, a function on the known ips
  whitelist,        \* cl.whitelist: the set of ips mapped to true
  globalLimit,      \* cl.globalLimit
  perClientLimit,   \* cl.perClientLimit
  timeWindow,       \* cl.timeWindow
  now,              \* the clock read by time.Now()
  \* observation of the calls made so far
  ret,              \* the last call observed: for IsAllowed its ip, result and
                    \* deciding branch; for DecrementActiveTests its ip, with
                    \* why = "decrement"
  allowLog,         \* the times at which IsAllowed(Observed) returned true since
                    \* the configuration last changed
  blockedAt,        \* the time of the last per-client-limit denial of Observed
                    \* under the current configuration, ZeroTime when there was
                    \* none or Observed has been allowed again since
  \* ConcurrentRequestLimiter and the requests being served
  maxReqs,          \* c.maxReqs
  semaphore,        \* len(c.semaphore): the tokens outstanding
  reqs,             \* per request slot: what was asked and how far it got
  \* one chunked download
  totalSize,        \* downloadChunked's totalSize
  numChunks,        \* downloadChunked's numChunks
  chunkSize,        \* downloadChunked's chunkSize (the minimum chunk size)
  worker,           \* per chunkID, the position of its goroutine
  chunkChan,        \* the frames buffered in chunkChan, oldest first
  chanClosed,       \* close(chunkChan) has run
  coord,            \* the position of the streaming loop
  inHand,           \* the frame the loop has received and is writing
  output,           \* the frames written to the ResponseWriter, in order
  emitted,          \* the frames the workers have sent to chunkChan, in order
  cancelled,        \* r.Context().Done() is closed
  \* one single-stream download
  single,           \* downloadSingle: size, written, len(buffer), the header
                    \* Content-Length, the blocks written and the position
  \* observation of GetStats
  stats,            \* the map returned by the last GetStats call
  \* one upload
  upload,           \* Upload after admission: the body, the reads io.Copy
                    \* made of it, the budget of the MaxBytesReader, the answer
  \* concurrent calls of IsAllowed
  mu,               \* cl.mu is locked
  calls,            \* per goroutine: how far its IsAllowed call got, the time
                    \* it read, the map it found, the branch it took
  allowance,        \* what the client and the limiter had left when the
                    \* calls started
  \* the parameters of one download
  params,           \* Download: the query strings and what they resolve to
  update            \* UpdateLimits running beside IsAllowed: where each goroutine
                    \* stands and the limits each call has read

limiterVars == <<clients, whitelist, globalLimit, perClientLimit, timeWindow, now>>
ghostVars == <<ret, allowLog, blockedAt>>
serverVars == <<maxReqs, semaphore, reqs>>
dlVars == <<totalSize, numChunks, chunkSize, worker, chunkChan, chanClosed, coord,
            inHand, output, emitted, cancelled>>
concVars == <<mu, calls, allowance>>
sideVars == <<single, stats, upload, concVars, params, update>>
vars == <<limiterVars, ghostVars, serverVars, dlVars, sideVars>>

\* ------------------------------------------------------------ ClientLimiter

NoRet == [ip |-> "", ok |-> FALSE, why |-> "none"]

\* &ClientInfo{IP: ip, Requests: [], ActiveTests: 0, TotalRequests: 0,
\*             LastSeen: now, IsBlocked: false}
NewClientInfo(t) ==
  [Requests |-> <<>>, ActiveTests |-> 0, TotalRequests |-> 0,
   LastSeen |-> t, IsBlocked |-> FALSE, BlockedUntil |-> ZeroTime]

\* getOrCreateClient: the map after the lookup (the record is cs'[ip])
getOrCreateClient(cs, ip, t) ==
  IF ip \in DOMAIN cs THEN cs
  ELSE [k \in DOMAIN cs \cup {ip} |-> IF k = ip THEN NewClientInfo(t) ELSE cs[k]]

\* updateClientInfo: LastSeen = now, TotalRequests++
updateClientInfo(cs, ip, t) ==
  LET c0 == getOrCreateClient(cs, ip, t)
  IN [c0 EXCEPT ![ip].LastSeen = t, ![ip].TotalRequests = @ + 1]

\* A window that still holds a request made exactly timeWindow ago.
InWindow_Closed(reqTime, t, w) == reqTime >= t - w

\* reqTime.After(now.Add(-timeWindow))
InWindow(reqTime, t, w) == reqTime > t - w

\* the loop that keeps the requests still inside the window
validRequests(requests, t, w) == SelectSeq(requests, LAMBDA reqTime : InWindow(reqTime, t, w))

RECURSIVE SumOver(_, _)
SumOver(f, S) ==
  IF S = {} THEN 0
  ELSE LET k == CHOOSE x \in S : TRUE IN f[k] + SumOver(f, S \ {k})

\* getTotalActiveRequests: in-window timestamps over all records
getTotalActiveRequests(cs, t, w) ==
  SumOver([k \in DOMAIN cs |-> Len(validRequests(cs[k].Requests, t, w))], DOMAIN cs)

\* A limiter that exempts the whitelist from the per-client check only: a
\* whitelisted client is still denied when the aggregate has reached globalLimit.
IsAllowedOutcome_WhitelistUnderGlobal(cs, wl, ip, t, gl, pl, w) ==
  LET c0 == getOrCreateClient(cs, ip, t)
      client == c0[ip]
      pruned == [c0 EXCEPT ![ip].Requests = validRequests(client.Requests, t, w)]
  IN IF ip \in wl
     THEN IF getTotalActiveRequests(cs, t, w) >= gl THEN "global" ELSE "whitelist"
     ELSE IF client.IsBlocked /\ t < client.BlockedUntil THEN "blocked"
     ELSE IF Len(pruned[ip].Requests) >= pl THEN "perClient"
     ELSE IF getTotalActiveRequests(pruned, t, w) >= gl THEN "global"
     ELSE "ok"

\* A limiter whose global check lets the aggregate reach globalLimit + 1
\* (> where the code has >=).
IsAllowedOutcome_GlobalOffByOne(cs, wl, ip, t, gl, pl, w) ==
  IF ip \in wl THEN "whitelist"
  ELSE LET c0 == getOrCreateClient(cs, ip, t)
           client == c0[ip]
           pruned == [c0 EXCEPT ![ip].Requests = validRequests(client.Requests, t, w)]
       IN IF client.IsBlocked /\ t < client.BlockedUntil THEN "blocked"
          ELSE IF Len(pruned[ip].Requests) >= pl THEN "perClient"
          ELSE IF getTotalActiveRequests(pruned, t, w) > gl THEN "global"
          ELSE "ok"

\* A limiter that counts a client's running tests as requests in its window.
IsAllowedOutcome_CountsTests(cs, wl, ip, t, gl, pl, w) ==
  IF ip \in wl THEN "whitelist"
  ELSE LET c0 == getOrCreateClient(cs, ip, t)
           client == c0[ip]
           pruned == [c0 EXCEPT ![ip].Requests = validRequests(client.Requests, t, w)]
       IN IF client.IsBlocked /\ t < client.BlockedUntil THEN "blocked"
          ELSE IF Len(pruned[ip].Requests) + client.ActiveTests >= pl THEN "perClient"
          ELSE IF getTotalActiveRequests(pruned, t, w) >= gl THEN "global"
          ELSE "ok"

\* The branch IsAllowed takes for ip, on the map after getOrCreateClient and
\* pruning.
IsAllowedOutcome(cs, wl, ip, t, gl, pl, w) ==
  IF ip \in wl THEN "whitelist"
  ELSE LET c0 == getOrCreateClient(cs, ip, t)
           client == c0[ip]
           pruned == [c0 EXCEPT ![ip].Requests = validRequests(client.Requests, t, w)]
       IN IF client.IsBlocked /\ t < client.BlockedUntil THEN "blocked"
          ELSE IF Len(pruned[ip].Requests) >= pl THEN "perClient"
          ELSE IF getTotalActiveRequests(pruned, t, w) >= gl THEN "global"
          ELSE "ok"

\* A limiter that treats a global-limit denial like a per-client one: it
\* blocks the client and counts the attempt.
IsAllowedClients_GlobalBlocks(cs, wl, ip, t, gl, pl, w) ==
  LET why == IsAllowedOutcome(cs, wl, ip, t, gl, pl, w)
      c0 == getOrCreateClient(cs, ip, t)
      pruned == [c0 EXCEPT ![ip].Requests = validRequests(c0[ip].Requests, t, w)]
  IN CASE why = "whitelist" -> updateClientInfo(cs, ip, t)
       [] why = "blocked" -> c0
       [] why = "perClient" ->
            [pruned EXCEPT ![ip].IsBlocked = TRUE, ![ip].BlockedUntil = t + BlockDuration]
       [] why = "global" ->
            [pruned EXCEPT ![ip].IsBlocked = TRUE, ![ip].BlockedUntil = t + BlockDuration,
                           ![ip].LastSeen = t]
       [] OTHER ->
            [pruned EXCEPT ![ip].Requests = Append(@, t),
                           ![ip].TotalRequests = @ + 1,
                           ![ip].LastSeen = t,
                           ![ip].IsBlocked = FALSE]

\* A limiter whose allow path records the request but leaves the block flag
\* of an expired cooldown set.
IsAllowedClients_KeepsFlag(cs, wl, ip, t, gl, pl, w) ==
  LET why == IsAllowedOutcome(cs, wl, ip, t, gl, pl, w)
      c0 == getOrCreateClient(cs, ip, t)
      pruned == [c0 EXCEPT ![ip].Requests = validRequests(c0[ip].Requests, t, w)]
  IN CASE why = "whitelist" -> updateClientInfo(cs, ip, t)
       [] why = "blocked" -> c0
       [] why = "perClient" ->
            [pruned EXCEPT ![ip].IsBlocked = TRUE, ![ip].BlockedUntil = t + BlockDuration]
       [] why = "global" -> pruned
       [] OTHER ->
            [pruned EXCEPT ![ip].Requests = Append(@, t),
                           ![ip].TotalRequests = @ + 1,
                           ![ip].LastSeen = t]

\* A limiter that records the requests of whitelisted clients in their window.
IsAllowedClients_WhitelistRecorded(cs, wl, ip, t, gl, pl, w) ==
  LET why == IsAllowedOutcome(cs, wl, ip, t, gl, pl, w)
      c0 == getOrCreateClient(cs, ip, t)
      pruned == [c0 EXCEPT ![ip].Requests = validRequests(c0[ip].Requests, t, w)]
  IN CASE why = "whitelist" ->
            [updateClientInfo(cs, ip, t) EXCEPT ![ip].Requests = Append(@, t)]
       [] why = "blocked" -> c0
       [] why = "perClient" ->
            [pruned EXCEPT ![ip].IsBlocked = TRUE, ![ip].BlockedUntil = t + BlockDuration]
       [] why = "global" -> pruned
       [] OTHER ->
            [pruned EXCEPT ![ip].Requests = Append(@, t),
                           ![ip].TotalRequests = @ + 1,
                           ![ip].LastSeen = t,
                           ![ip].IsBlocked = FALSE]

\* A limiter in which a call during the cooldown restarts the cooldown.
IsAllowedClients_BlockExtended(cs, wl, ip, t, gl, pl, w) ==
  LET why == IsAllowedOutcome(cs, wl, ip, t, gl, pl, w)
      c0 == getOrCreateClient(cs, ip, t)
      pruned == [c0 EXCEPT ![ip].Requests = validRequests(c0[ip].Requests, t, w)]
  IN CASE why = "whitelist" -> updateClientInfo(cs, ip, t)
       [] why = "blocked" -> [c0 EXCEPT ![ip].BlockedUntil = t + BlockDuration]
       [] why = "perClient" ->
            [pruned EXCEPT ![ip].IsBlocked = TRUE, ![ip].BlockedUntil = t + BlockDuration]
       [] why = "global" -> pruned
       [] OTHER ->
            [pruned EXCEPT ![ip].Requests = Append(@, t),
                           ![ip].TotalRequests = @ + 1,
                           ![ip].LastSeen = t,
                           ![ip].IsBlocked = FALSE]

\* The client map IsAllowed leaves behind.
IsAllowedClients(cs, wl, ip, t, gl, pl, w) ==
  LET why == IsAllowedOutcome(cs, wl, ip, t, gl, pl, w)
      c0 == getOrCreateClient(cs, ip, t)
      pruned == [c0 EXCEPT ![ip].Requests = validRequests(c0[ip].Requests, t, w)]
  IN CASE why = "whitelist" -> updateClientInfo(cs, ip, t)
       [] why = "blocked" -> c0
       [] why = "perClient" ->
            [pruned EXCEPT ![ip].IsBlocked = TRUE, ![ip].BlockedUntil = t + BlockDuration]
       [] why = "global" -> pruned
       [] OTHER ->
            [pruned EXCEPT ![ip].Requests = Append(@, t),
                           ![ip].TotalRequests = @ + 1,
                           ![ip].LastSeen = t,
                           ![ip].IsBlocked = FALSE]

Allowed(why) == why \in {"whitelist", "ok"}

\* What one call of IsAllowed(ip) does to the limiter; its result is ret'.ok.
IsAllowedCall(ip) ==
  LET why == IsAllowedOutcome(clients, whitelist, ip, now, globalLimit, perClientLimit, timeWindow)
  IN /\ Allowed(why) =>
          /\ (ip \in DOMAIN clients => clients[ip].TotalRequests < MaxTotal)
          /\ (ip = Observed => Len(allowLog) <= MaxTotal)
     /\ clients' = IsAllowedClients(clients, whitelist, ip, now, globalLimit, perClientLimit, timeWindow)
     /\ ret' = [ip |-> ip, ok |-> Allowed(why), why |-> why]
     /\ allowLog' = IF Allowed(why) /\ ip = Observed THEN Append(allowLog, now) ELSE allowLog
     /\ blockedAt' = IF ip # Observed THEN blockedAt
                    ELSE IF why = "perClient" THEN now
                    ELSE IF Allowed(why) THEN ZeroTime
                    ELSE blockedAt
     /\ UNCHANGED <<whitelist, globalLimit, perClientLimit, timeWindow, now>>

\* IsAllowed called directly.
IsAllowed(ip) ==
  /\ IsAllowedCall(ip)
  /\ UNCHANGED <<serverVars, dlVars, sideVars>>

\* A whitelist that Remove empties.
removeFromWhitelist_Clear(wl, ip) == {}

\* cl.whitelist[ip] = true
addToWhitelist(wl, ip) == wl \cup {ip}

\* delete(cl.whitelist, ip)
removeFromWhitelist(wl, ip) == wl \ {ip}

AddToWhitelist(ip) ==
  /\ whitelist' = addToWhitelist(whitelist, ip)
  /\ UNCHANGED <<clients, globalLimit, perClientLimit, timeWindow, now, ghostVars,
                 serverVars, dlVars, sideVars>>

RemoveFromWhitelist(ip) ==
  /\ whitelist' = removeFromWhitelist(whitelist, ip)
  /\ UNCHANGED <<clients, globalLimit, perClientLimit, timeWindow, now, ghostVars,
                 serverVars, dlVars, sideVars>>

\* IncrementActiveTests: getOrCreateClient, ActiveTests++
incrementClients(cs, ip, t) ==
  [getOrCreateClient(cs, ip, t) EXCEPT ![ip].ActiveTests = @ + 1]

\* A decrement without the floor at zero.
decrementClients_NoFloor(cs, ip) ==
  IF ip \in DOMAIN cs
  THEN [cs EXCEPT ![ip].ActiveTests = @ - 1]
  ELSE cs

\* DecrementActiveTests: only an existing record with ActiveTests > 0 changes
decrementClients(cs, ip) ==
  IF ip \in DOMAIN cs /\ cs[ip].ActiveTests > 0
  THEN [cs EXCEPT ![ip].ActiveTests = @ - 1]
  ELSE cs

IncrementActiveTests(ip) ==
  /\ (ip \in DOMAIN clients => clients[ip].ActiveTests < MaxActive)
  /\ clients' = incrementClients(clients, ip, now)
  /\ UNCHANGED <<whitelist, globalLimit, perClientLimit, timeWindow, now, ghostVars,
                 serverVars, dlVars, sideVars>>

DecrementActiveTests(ip) ==
  /\ clients' = decrementClients(clients, ip)
  /\ ret' = [ip |-> ip, ok |-> FALSE, why |-> "decrement"]
  /\ UNCHANGED <<whitelist, globalLimit, perClientLimit, timeWindow, now, allowLog,
                 blockedAt, serverVars, dlVars, sideVars>>

\* UpdateLimits: the three fields are replaced under the lock.
UpdateLimits(gl, pl, w) ==
  /\ <<gl, pl, w>> # <<globalLimit, perClientLimit, timeWindow>>
  /\ globalLimit' = gl
  /\ perClientLimit' = pl
  /\ timeWindow' = w
  /\ allowLog' = <<>>
  /\ blockedAt' = ZeroTime
  /\ UNCHANGED <<clients, whitelist, now, ret, serverVars, dlVars, sideVars>>

\* A GetStats that counts every record whose blocked flag is set.
GetStats_CountsStaleBlocks(cs, wl, gl, pl, w, t) ==
  [total_clients |-> Cardinality(DOMAIN cs),
   active_clients |-> Cardinality({k \in DOMAIN cs : cs[k].LastSeen > t - ActiveHorizon}),
   blocked_clients |-> Cardinality({k \in DOMAIN cs : cs[k].IsBlocked}),
   total_active_tests |-> SumOver([k \in DOMAIN cs |-> cs[k].ActiveTests], DOMAIN cs),
   whitelist_count |-> Cardinality(wl),
   global_limit |-> gl,
   per_client_limit |-> pl,
   time_window_seconds |-> w * 60]

\* GetStats: the map built under the read lock
GetStats(cs, wl, gl, pl, w, t) ==
  [total_clients |-> Cardinality(DOMAIN cs),
   active_clients |-> Cardinality({k \in DOMAIN cs : cs[k].LastSeen > t - ActiveHorizon}),
   blocked_clients |->
     Cardinality({k \in DOMAIN cs : cs[k].IsBlocked /\ t < cs[k].BlockedUntil}),
   total_active_tests |-> SumOver([k \in DOMAIN cs |-> cs[k].ActiveTests], DOMAIN cs),
   whitelist_count |-> Cardinality(wl),
   global_limit |-> gl,
   per_client_limit |-> pl,
   time_window_seconds |-> w * 60]

NoStats == [total_clients |-> -1]

\* One call of GetStats; nothing of the limiter is written.
GetStatsCall ==
  /\ stats' = GetStats(clients, whitelist, globalLimit, perClientLimit, timeWindow, now)
  /\ UNCHANGED <<limiterVars, ghostVars, serverVars, dlVars, single, upload, concVars, params, update>>

\* A reaper that looks at LastSeen only.
reapedClients_IgnoreActive(cs, t) ==
  LET keep == {k \in DOMAIN cs : ~(cs[k].LastSeen < t - Retention)}
  IN [k \in keep |-> cs[k]]

\* the records one pass of the reaper keeps
reapedClients(cs, t) ==
  LET keep == {k \in DOMAIN cs : ~(cs[k].LastSeen < t - Retention /\ cs[k].ActiveTests = 0)}
  IN [k \in keep |-> cs[k]]

\* One pass of cleanupExpiredEntries; the ticker fires every CleanupInterval
\* after construction at time 0.
cleanupExpiredEntries ==
  /\ now > 0
  /\ now % CleanupInterval = 0
  /\ clients' = reapedClients(clients, now)
  /\ UNCHANGED <<whitelist, globalLimit, perClientLimit, timeWindow, now, ghostVars,
                 serverVars, dlVars, sideVars>>

\* Time passes until a later instant.
Tick(t) ==
  /\ t > now
  /\ now' = t
  /\ UNCHANGED <<clients, whitelist, globalLimit, perClientLimit, timeWindow, ghostVars,
                 serverVars, dlVars, sideVars>>

\* NewClientLimiter(globalLimit, perClientLimit, timeWindow) at time 0
LimiterInit ==
  /\ clients = <<>>
  /\ whitelist = {}
  /\ \E c \in Configs : globalLimit = c[1] /\ perClientLimit = c[2] /\ timeWindow = c[3]
  /\ now = 0
  /\ ret = NoRet
  /\ allowLog = <<>>
  /\ blockedAt = ZeroTime

\* ------------------------------------------------- ConcurrentRequestLimiter

\* strconv.Atoi on the values MAX_CONCURRENT_REQUESTS is given here
Atoi(str) ==
  CASE str = "-1" -> [n |-> -1, err |-> FALSE]
    [] str = "0" -> [n |-> 0, err |-> FALSE]
    [] str = "2" -> [n |-> 2, err |-> FALSE]
    [] OTHER -> [n |-> 0, err |-> TRUE]

\* config.GetMaxConcurrentRequests: the variable when it is a number above 0,
\* else the constant
GetMaxConcurrentRequests(maxReqsStr) ==
  IF maxReqsStr # "" /\ ~Atoi(maxReqsStr).err /\ Atoi(maxReqsStr).n > 0
  THEN Atoi(maxReqsStr).n
  ELSE MaxConcurrentRequests

\* NewConcurrentRequestLimiter: maxRequests <= 0 gives maxReqs 0 and no channel
NewConcurrentRequestLimiter(maxRequests) == IF maxRequests <= 0 THEN 0 ELSE maxRequests

Reqs == 1 .. NumReqs

NoKind == [route |-> "", ip |-> "", upgrade |-> FALSE]
IdleReq == [kind |-> NoKind, pc |-> "idle", tok |-> "none", resp |-> ""]

\* server.New: /ws is registered on the root router, every other route on the
\* api subrouter that uses concurrentLimiter.Middleware
Gated(route) == route # "ws"

\* A gate whose pool holds one token more than maxReqs.
MiddlewareDecision_OverCapacity(kind, sem, max) ==
  IF kind.upgrade THEN "pass"
  ELSE IF max = 0 THEN "pass"
  ELSE IF sem <= max THEN "acquire"
  ELSE "reject"

\* A gate that lets the clients on the limiter's whitelist through without a
\* token.
MiddlewareDecision_WhitelistPasses(kind, sem, max) ==
  IF kind.upgrade \/ kind.ip \in whitelist THEN "pass"
  ELSE IF max = 0 THEN "pass"
  ELSE IF sem < max THEN "acquire"
  ELSE "reject"

\* A gate that turns a request away while one token is still free.
MiddlewareDecision_EarlyReject(kind, sem, max) ==
  IF kind.upgrade THEN "pass"
  ELSE IF max = 0 THEN "pass"
  ELSE IF sem + 1 < max THEN "acquire"
  ELSE "reject"

\* Middleware, up to the call of next.ServeHTTP or the 503: the request is
\* passed on without a token (Upgrade: websocket, or maxReqs = 0), passed on
\* with a token (the select took a slot), or rejected (the select's default).
MiddlewareDecision(kind, sem, max) ==
  IF kind.upgrade THEN "pass"
  ELSE IF max = 0 THEN "pass"
  ELSE IF sem < max THEN "acquire"
  ELSE "reject"

\* A server that puts every route behind a gate without the websocket
\* exemption.
routeDecision_GateAll(kind, sem, max) ==
  IF max = 0 THEN "pass"
  ELSE IF sem < max THEN "acquire"
  ELSE "reject"

\* server.New: the middleware runs for the routes of the api subrouter only
routeDecision(kind, sem, max) ==
  IF Gated(kind.route) THEN MiddlewareDecision(kind, sem, max) ELSE "pass"

\* A request arrives, or a request answered 503 is sent again; the router and
\* the middleware run up to the handler's first statement.
Arrive(r, kind) ==
  /\ \/ reqs[r].pc = "idle"
     \/ reqs[r].pc = "done" /\ reqs[r].resp = "503" /\ reqs[r].kind = kind
  /\ LET d == routeDecision(kind, semaphore, maxReqs)
     IN /\ semaphore' = IF d = "acquire" THEN semaphore + 1 ELSE semaphore
        /\ reqs' = [reqs EXCEPT ![r] =
                      IF d = "reject"
                      THEN [kind |-> kind, pc |-> "done", tok |-> "none", resp |-> "503"]
                      ELSE [kind |-> kind, pc |-> "handler",
                            tok |-> IF d = "acquire" THEN "held" ELSE "none",
                            resp |-> ""]]
  /\ UNCHANGED <<maxReqs, limiterVars, ghostVars, dlVars, sideVars>>

IsTest(route) == route \in {"download", "upload"}

\* Download, Upload: clientIP := getClientIP(r); if !IsAllowed(clientIP) then
\* 429 and return.
HandlerCheck(r) ==
  /\ reqs[r].pc = "handler"
  /\ IsTest(reqs[r].kind.route)
  /\ IsAllowedCall(reqs[r].kind.ip)
  /\ reqs' = [reqs EXCEPT ![r].pc = IF ret'.ok THEN "allowed" ELSE "returned",
                          ![r].resp = IF ret'.ok THEN "" ELSE "429"]
  /\ UNCHANGED <<maxReqs, semaphore, dlVars, sideVars>>

\* Download, Upload: IncrementActiveTests(clientIP); defer DecrementActiveTests
HandlerIncrement(r) ==
  /\ reqs[r].pc = "allowed"
  /\ clients' = incrementClients(clients, reqs[r].kind.ip, now)
  /\ reqs' = [reqs EXCEPT ![r].pc = "active"]
  /\ UNCHANGED <<whitelist, globalLimit, perClientLimit, timeWindow, now, ghostVars,
                 maxReqs, semaphore, dlVars, sideVars>>

\* how a handler stops: it completes, it stops on a write error or a closed
\* connection, or it panics
Exits == {"200", "aborted", "panic"}

\* A handler that decrements at its return statements instead of in a defer:
\* a panic skips the decrement.
testExitClients_ReturnOnly(cs, ip, how) ==
  IF how = "panic" THEN cs ELSE decrementClients(cs, ip)

\* what leaving the body of Download or Upload does to the records: the
\* deferred DecrementActiveTests runs on every exit
testExitClients(cs, ip, how) == decrementClients(cs, ip)

\* Download, Upload: the body after the defer ends; the deferred decrement runs.
HandlerExit(r, how) ==
  /\ reqs[r].pc = "active"
  /\ clients' = testExitClients(clients, reqs[r].kind.ip, how)
  /\ reqs' = [reqs EXCEPT ![r].pc = "returned", ![r].resp = how]
  /\ UNCHANGED <<whitelist, globalLimit, perClientLimit, timeWindow, now, ghostVars,
                 maxReqs, semaphore, dlVars, sideVars>>

\* Ping, IP, Health, ..., WebSocket: handlers that do not touch the limiter
PlainExit(r, how) ==
  /\ reqs[r].pc = "handler"
  /\ ~IsTest(reqs[r].kind.route)
  /\ reqs' = [reqs EXCEPT ![r].pc = "returned", ![r].resp = how]
  /\ UNCHANGED <<maxReqs, semaphore, limiterVars, ghostVars, dlVars, sideVars>>

\* WebSocket: h.upgrader.Upgrade is the handler's first statement; it answers
\* 101 and the echo loop starts, or it fails and the handler returns.
WebSocket(r, ok) ==
  /\ reqs[r].pc = "handler"
  /\ reqs[r].kind.route = "ws"
  /\ reqs' = [reqs EXCEPT ![r].pc = IF ok THEN "upgraded" ELSE "returned",
                          ![r].resp = IF ok THEN "101" ELSE "400"]
  /\ UNCHANGED <<maxReqs, semaphore, limiterVars, ghostVars, dlVars, sideVars>>

\* WebSocket: ReadMessage or WriteMessage fails, the loop breaks, the deferred
\* conn.Close() runs.
WebSocketClose(r) ==
  /\ reqs[r].pc = "upgraded"
  /\ reqs' = [reqs EXCEPT ![r].pc = "returned"]
  /\ UNCHANGED <<maxReqs, semaphore, limiterVars, ghostVars, dlVars, sideVars>>

\* A middleware that gives the token back only after a handler that answered
\* 200.
releaseRuns_SuccessOnly(tok, how) == tok = "held" /\ how = "200"

\* A middleware that releases after next.ServeHTTP returns instead of in a
\* defer: a panic skips the release.
releaseRuns_ReturnOnly(tok, how) == tok = "held" /\ how # "panic"

\* whether the middleware's deferred func() { <-c.semaphore }() runs when
\* next.ServeHTTP ends in the given way: a defer runs on return and on panic
releaseRuns(tok, how) == tok = "held"

\* next.ServeHTTP has ended; the middleware unwinds.
Leave(r) ==
  /\ reqs[r].pc = "returned"
  /\ LET rel == releaseRuns(reqs[r].tok, reqs[r].resp)
     IN /\ semaphore' = IF rel THEN semaphore - 1 ELSE semaphore
        /\ reqs' = [reqs EXCEPT ![r].pc = "done",
                                ![r].tok = IF rel THEN "released" ELSE @]
  /\ UNCHANGED <<maxReqs, limiterVars, ghostVars, dlVars, sideVars>>

ServerInit ==
  /\ \E n \in GateSizes : maxReqs = NewConcurrentRequestLimiter(n)
  /\ semaphore = 0
  /\ reqs = [r \in Reqs |-> IdleReq]

\* server.New with MAX_CONCURRENT_REQUESTS unset
ServerInitDefault ==
  /\ maxReqs = NewConcurrentRequestLimiter(GetMaxConcurrentRequests(""))
  /\ semaphore = 0
  /\ reqs = [r \in Reqs |-> IdleReq]

\* the server's variables when no request is modelled
ServerOff ==
  /\ maxReqs = 0
  /\ semaphore = 0
  /\ reqs = [r \in Reqs |-> IdleReq]

\* ---------------------------------------------------------- downloadChunked

\* int64 arithmetic: the result of an operation, wrapped into the integer range
Wrap(x) == ((x + IntMax + 1) % (2 * (IntMax + 1))) - (IntMax + 1)

\* the largest slice make([]byte, n) can allocate
MaxAlloc == IntMax - 2

\* actualChunkSize := totalSize / numChunks, raised to chunkSize if below it
actualChunkSize(S, P, m) ==
  LET q == S \div P IN IF q < m THEN m ELSE q

\* start := int64(chunkID) * actualChunkSize
chunkStart(i, S, P, m) == Wrap(i * actualChunkSize(S, P, m))

\* end := start + actualChunkSize; if end > totalSize { end = totalSize }
chunkEnd(i, S, P, m) ==
  LET e == Wrap(chunkStart(i, S, P, m) + actualChunkSize(S, P, m))
  IN IF e > S THEN S ELSE e

\* size := end - start
chunkLen(i, S, P, m) == Wrap(chunkEnd(i, S, P, m) - chunkStart(i, S, P, m))

\* for i := 0; i < numChunks; i++ { go func(chunkID int) {...}(i) }
Workers == 0 .. (numChunks - 1)

\* A header that numbers the chunks from one.
frameIndex_OneBased(chunkID) == chunkID + 1

\* binary.BigEndian.PutUint32(chunkWithHeader[0:4], uint32(chunkID))
frameIndex(chunkID) == chunkID

\* uint32(x) of a non-negative x
Uint32(x) == x % Uint32Range

\* binary.BigEndian.PutUint32(chunkWithHeader[4:8], uint32(len(chunk)))
frameLength(n) == Uint32(n)

\* a goroutine panicked: the process is gone
Crashed == \E i \in Workers : worker[i] = "panic"

CoordDone == coord \in {"closed", "cancelled", "writeError"}

\* r.Context().Done(): the client went away, or ServeHTTP has returned
CtxDone == cancelled \/ CoordDone

\* A generation goroutine that writes its frame to the ResponseWriter itself
\* before it queues it.
RunWorker_SelfWrite(i) ==
  /\ ~Crashed
  /\ worker[i] = "run"
  /\ LET size == chunkLen(i, totalSize, numChunks, chunkSize)
         frame == [index |-> frameIndex(i), length |-> frameLength(size),
                   size |-> size, chunkID |-> i]
     IN \/ /\ size <= 0
           /\ worker' = [worker EXCEPT ![i] = "empty"]
           /\ UNCHANGED <<chunkChan, emitted, output>>
        \/ /\ size > MaxAlloc
           /\ worker' = [worker EXCEPT ![i] = "panic"]
           /\ UNCHANGED <<chunkChan, emitted, output>>
        \/ /\ size > 0 /\ size <= MaxAlloc
           /\ worker' = [worker EXCEPT ![i] = "sent"]
           /\ chunkChan' = Append(chunkChan, frame)
           /\ emitted' = Append(emitted, frame)
           /\ output' = Append(output, frame)
        \/ /\ size > 0 /\ size <= MaxAlloc
           /\ CtxDone
           /\ worker' = [worker EXCEPT ![i] = "dropped"]
           /\ UNCHANGED <<chunkChan, emitted, output>>
  /\ UNCHANGED <<totalSize, numChunks, chunkSize, chanClosed, coord, inHand,
                 cancelled, limiterVars, ghostVars, serverVars, sideVars>>

\* The generation goroutine of chunkID i, from its start to its end: it
\* returns without a chunk when its range is empty, panics when the slice
\* cannot be allocated, and otherwise sends its frame to chunkChan (which has
\* room for every worker) or, when the context is done, may return instead.
RunWorker(i) ==
  /\ ~Crashed
  /\ worker[i] = "run"
  /\ LET size == chunkLen(i, totalSize, numChunks, chunkSize)
         frame == [index |-> frameIndex(i), length |-> frameLength(size),
                   size |-> size, chunkID |-> i]
     IN \/ /\ size <= 0
           /\ worker' = [worker EXCEPT ![i] = "empty"]
           /\ UNCHANGED <<chunkChan, emitted>>
        \/ /\ size > MaxAlloc
           /\ worker' = [worker EXCEPT ![i] = "panic"]
           /\ UNCHANGED <<chunkChan, emitted>>
        \/ /\ size > 0 /\ size <= MaxAlloc
           /\ worker' = [worker EXCEPT ![i] = "sent"]
           /\ chunkChan' = Append(chunkChan, frame)
           /\ emitted' = Append(emitted, frame)
        \/ /\ size > 0 /\ size <= MaxAlloc
           /\ CtxDone
           /\ worker' = [worker EXCEPT ![i] = "dropped"]
           /\ UNCHANGED <<chunkChan, emitted>>
  /\ UNCHANGED <<totalSize, numChunks, chunkSize, chanClosed, coord, inHand, output,
                 cancelled, limiterVars, ghostVars, serverVars, sideVars>>

\* A closer that waits for one worker only.
Closer_Early ==
  /\ ~Crashed
  /\ ~chanClosed
  /\ \E i \in Workers : worker[i] \in {"empty", "sent", "dropped"}
  /\ chanClosed' = TRUE
  /\ UNCHANGED <<totalSize, numChunks, chunkSize, worker, chunkChan, coord, inHand,
                 output, emitted, cancelled, limiterVars, ghostVars, serverVars, sideVars>>

\* go func() { wg.Wait(); close(chunkChan); close(errorChan) }()
Closer ==
  /\ ~Crashed
  /\ ~chanClosed
  /\ \A i \in Workers : worker[i] \in {"empty", "sent", "dropped"}
  /\ chanClosed' = TRUE
  /\ UNCHANGED <<totalSize, numChunks, chunkSize, worker, chunkChan, coord, inHand,
                 output, emitted, cancelled, limiterVars, ghostVars, serverVars, sideVars>>

NoFrame == [index |-> -1, length |-> 0, size |-> 0, chunkID |-> -1]

\* case chunk, ok := <-chunkChan with ok true
CoordReceive ==
  /\ ~Crashed
  /\ coord = "select"
  /\ chunkChan # <<>>
  /\ inHand' = Head(chunkChan)
  /\ chunkChan' = Tail(chunkChan)
  /\ coord' = "write"
  /\ UNCHANGED <<totalSize, numChunks, chunkSize, worker, chanClosed, output, emitted,
                 cancelled, limiterVars, ghostVars, serverVars, sideVars>>

\* A loop that returns as soon as it finds the queue empty.
CoordClosed_OnEmpty ==
  /\ ~Crashed
  /\ coord = "select"
  /\ chunkChan = <<>>
  /\ coord' = "closed"
  /\ UNCHANGED <<totalSize, numChunks, chunkSize, worker, chunkChan, chanClosed, inHand,
                 output, emitted, cancelled, limiterVars, ghostVars, serverVars, sideVars>>

\* case chunk, ok := <-chunkChan with ok false: return
CoordClosed ==
  /\ ~Crashed
  /\ coord = "select"
  /\ chunkChan = <<>>
  /\ chanClosed
  /\ coord' = "closed"
  /\ UNCHANGED <<totalSize, numChunks, chunkSize, worker, chunkChan, chanClosed, inHand,
                 output, emitted, cancelled, limiterVars, ghostVars, serverVars, sideVars>>

\* case <-r.Context().Done(): return
CoordCancelled ==
  /\ ~Crashed
  /\ coord = "select"
  /\ cancelled
  /\ coord' = "cancelled"
  /\ UNCHANGED <<totalSize, numChunks, chunkSize, worker, chunkChan, chanClosed, inHand,
                 output, emitted, cancelled, limiterVars, ghostVars, serverVars, sideVars>>

\* w.Write(chunk): on an error return, else count, flush, sleep and loop
CoordWrite(ok) ==
  /\ ~Crashed
  /\ coord = "write"
  /\ IF ok
     THEN /\ output' = Append(output, inHand)
          /\ coord' = "select"
     ELSE /\ coord' = "writeError"
          /\ UNCHANGED output
  /\ inHand' = NoFrame
  /\ UNCHANGED <<totalSize, numChunks, chunkSize, worker, chunkChan, chanClosed, emitted,
                 cancelled, limiterVars, ghostVars, serverVars, sideVars>>

\* The client disconnects or the request times out.
Cancel ==
  /\ ~Crashed
  /\ ~cancelled
  /\ ~CoordDone
  /\ cancelled' = TRUE
  /\ UNCHANGED <<totalSize, numChunks, chunkSize, worker, chunkChan, chanClosed, coord,
                 inHand, output, emitted, limiterVars, ghostVars, serverVars, sideVars>>

\* downloadChunked(w, r, totalSize, numChunks, chunkSize) has started its
\* goroutines
DlInit ==
  /\ totalSize \in Sizes
  /\ numChunks \in ChunkCounts
  /\ chunkSize \in MinChunkSizes
  /\ worker = [i \in Workers |-> "run"]
  /\ chunkChan = <<>>
  /\ chanClosed = FALSE
  /\ coord = "select"
  /\ inHand = NoFrame
  /\ output = <<>>
  /\ emitted = <<>>
  /\ cancelled = FALSE

\* the download's variables when no chunked download is modelled
DlOff ==
  /\ totalSize = 1
  /\ numChunks = 2
  /\ chunkSize = 1
  /\ worker = [i \in 0 .. 1 |-> "run"]
  /\ chunkChan = <<>>
  /\ chanClosed = FALSE
  /\ coord = "select"
  /\ inHand = NoFrame
  /\ output = <<>>
  /\ emitted = <<>>
  /\ cancelled = FALSE

\* ---------------------------------------------------------- downloadSingle

\* A loop that always writes the whole buffer.
nextBuffer_Whole(remaining, buflen) == buflen

\* buffer = buffer[:remaining] when less than a buffer is left
nextBuffer(remaining, buflen) == IF remaining < buflen THEN remaining ELSE buflen

\* A loop that looks at the context only when it starts.
afterBlock_NoCheck(ctxDone, written, size) ==
  IF written >= size THEN "done" ELSE "loop"

\* after Write and Flush: the select on r.Context().Done() returns, else the
\* loop condition written < size decides
afterBlock(ctxDone, written, size) ==
  IF ctxDone THEN "cancelled"
  ELSE IF written >= size THEN "done"
  ELSE "loop"

NoSingle == [size |-> 0, written |-> 0, buffer |-> 0, contentLength |-> -1,
             blocks |-> <<>>, pc |-> "off", ctxDone |-> FALSE]

\* Download with chunks = 1: Content-Length is set to size and downloadSingle
\* starts with a buffer of BufferLen bytes
SingleInit ==
  \E sz \in SingleSizes :
    single = [size |-> sz, written |-> 0, buffer |-> BufferLen, contentLength |-> sz,
              blocks |-> <<>>, pc |-> "loop", ctxDone |-> FALSE]

\* One pass of the loop: cut the buffer, w.Write, Flush, look at the context.
\* A failing Write has written n bytes, fewer than the buffer, and the
\* function returns.
SingleWrite(ok) ==
  /\ single.pc = "loop"
  /\ single.written < single.size
  /\ LET buf == nextBuffer(single.size - single.written, single.buffer)
     IN IF ok
        THEN single' = [single EXCEPT
                          !.buffer = buf,
                          !.blocks = Append(@, buf),
                          !.written = @ + buf,
                          !.pc = afterBlock(single.ctxDone, single.written + buf,
                                            single.size)]
        ELSE \E n \in 0 .. (buf - 1) :
               single' = [single EXCEPT
                            !.buffer = buf,
                            !.blocks = IF n > 0 THEN Append(@, n) ELSE @,
                            !.pc = "writeError"]
  /\ UNCHANGED <<limiterVars, ghostVars, serverVars, dlVars, stats, upload, concVars, params, update>>

\* the client goes away while the loop runs
SingleCancel ==
  /\ single.pc = "loop"
  /\ ~single.ctxDone
  /\ single' = [single EXCEPT !.ctxDone = TRUE]
  /\ UNCHANGED <<limiterVars, ghostVars, serverVars, dlVars, stats, upload, concVars, params, update>>

\* ------------------------------------------------------ Download's parameters

Digits == <<"0", "1", "2", "3", "4", "5", "6", "7", "8", "9">>

IsDigit(c) == \E d \in DOMAIN Digits : Digits[d] = c

DigitVal(c) == (CHOOSE d \in DOMAIN Digits : Digits[d] = c) - 1

\* the value of a sequence of digits, most significant first
RECURSIVE DigitsVal(_)
DigitsVal(ds) ==
  IF ds = <<>> THEN 0
  ELSE 10 * DigitsVal(SubSeq(ds, 1, Len(ds) - 1)) + DigitVal(ds[Len(ds)])

\* strconv.ParseInt(s, 10, 64) and strconv.Atoi(s) on short strings: an
\* optional sign and at least one digit, anything else is a syntax error
ParseInt(s) ==
  LET signed == s # <<>> /\ s[1] \in {"+", "-"}
      ds == IF signed THEN Tail(s) ELSE s
  IN IF ds = <<>> \/ \E j \in DOMAIN ds : ~IsDigit(ds[j])
     THEN [n |-> 0, err |-> TRUE]
     ELSE [n |-> IF signed /\ s[1] = "-" THEN 0 - DigitsVal(ds) ELSE DigitsVal(ds),
           err |-> FALSE]

\* size: the parameter when it parses to a number above 0, else 50 MiB
resolveSize(sizeStr) ==
  IF sizeStr # <<>> /\ ~ParseInt(sizeStr).err /\ ParseInt(sizeStr).n > 0
  THEN ParseInt(sizeStr).n
  ELSE DefaultSize

\* chunks: the parameter when it parses to a number in 1 .. 10, else 1
resolveChunks(chunksStr) ==
  IF /\ chunksStr # <<>>
     /\ ~ParseInt(chunksStr).err
     /\ ParseInt(chunksStr).n > 0
     /\ ParseInt(chunksStr).n <= ChunksCap
  THEN ParseInt(chunksStr).n
  ELSE DefaultChunks

\* chunk_size: the parameter when it parses to a number above 0, else 1 MiB
resolveChunkSize(chunkSizeStr) ==
  IF chunkSizeStr # <<>> /\ ~ParseInt(chunkSizeStr).err /\ ParseInt(chunkSizeStr).n > 0
  THEN ParseInt(chunkSizeStr).n
  ELSE DefaultChunkSize

NoParams == [sizeStr |-> <<>>, chunksStr |-> <<>>, chunkSizeStr |-> <<>>,
             size |-> 0, chunks |-> 0, chunkSize |-> 0, pc |-> "off"]

\* Download has been admitted and reads its query
ParamsInit ==
  \E s \in SizeStrs, c \in ChunksStrs, m \in ChunkSizeStrs :
    params = [NoParams EXCEPT !.sizeStr = s, !.chunksStr = c, !.chunkSizeStr = m,
                              !.pc = "parse"]

\* Download: the three parameters are resolved
ParseParams ==
  /\ params.pc = "parse"
  /\ params' = [params EXCEPT !.size = resolveSize(params.sizeStr),
                              !.chunks = resolveChunks(params.chunksStr),
                              !.chunkSize = resolveChunkSize(params.chunkSizeStr),
                              !.pc = "parsed"]
  /\ UNCHANGED <<limiterVars, ghostVars, serverVars, dlVars, single, stats, upload,
                 concVars, update>>

\* Download: chunks > 1 goes to downloadChunked, else to downloadSingle
Dispatch ==
  /\ params.pc = "parsed"
  /\ params' = [params EXCEPT !.pc = IF params.chunks > 1 THEN "chunked" ELSE "single"]
  /\ UNCHANGED <<limiterVars, ghostVars, serverVars, dlVars, single, stats, upload,
                 concVars, update>>

\* ------------------------------------------------------------------ Upload

\* A MaxBytesReader that fails as soon as the budget is used up.
limitedRead_Eager(k, left) ==
  [n |-> IF k < left THEN k ELSE left, err |-> k >= left]

\* http.MaxBytesReader.Read when the body hands over k bytes and left bytes
\* of the budget remain: k bytes, or the budget and an error when k exceeds it
limitedRead(k, left) ==
  [n |-> IF k <= left THEN k ELSE left, err |-> k > left]

NoUpload == [body |-> 0, reads |-> <<>>, left |-> 0, pc |-> "off", status |-> "",
             bytesReceived |-> -1]

\* Upload after the limiter has admitted the client: r.Body is wrapped in a
\* MaxBytesReader of MaxUploadSize and io.Copy starts
UploadInit ==
  \E b \in BodySizes :
    upload = [body |-> b, reads |-> <<>>, left |-> UploadLimit, pc |-> "copy",
              status |-> "", bytesReceived |-> -1]

\* the bytes of the body io.Copy has taken so far
Consumed(u) ==
  IF u.reads = <<>> THEN 0 ELSE LET f[i \in 0 .. Len(u.reads)] ==
                                     IF i = 0 THEN 0 ELSE f[i - 1] + u.reads[i]
                                 IN f[Len(u.reads)]

\* io.Copy: one Read of the body returns k bytes (the MaxBytesReader asks for
\* at most left + 1); over the budget the copy fails and the handler answers
\* 400 without a count.
UploadRead(k) ==
  /\ upload.pc = "copy"
  /\ k >= 1
  /\ k <= upload.body - Consumed(upload)
  /\ k <= upload.left + 1
  /\ LET rd == limitedRead(k, upload.left)
     IN upload' = [upload EXCEPT
                     !.reads = IF rd.n > 0 THEN Append(@, rd.n) ELSE @,
                     !.left = @ - rd.n,
                     !.pc = IF rd.err THEN "done" ELSE "copy",
                     !.status = IF rd.err THEN "400" ELSE @]
  /\ UNCHANGED <<limiterVars, ghostVars, serverVars, dlVars, single, stats, concVars, params, update>>

\* io.Copy: the body is at its end; the copy returns the count and the
\* handler encodes it as bytes_received.
UploadEOF ==
  /\ upload.pc = "copy"
  /\ Consumed(upload) = upload.body
  /\ upload' = [upload EXCEPT !.pc = "done", !.status = "200",
                              !.bytesReceived = Consumed(upload)]
  /\ UNCHANGED <<limiterVars, ghostVars, serverVars, dlVars, single, stats, concVars, params, update>>

\* io.Copy: the connection breaks before the end of the body; the handler
\* answers 400 without a count.
UploadAbort ==
  /\ upload.pc = "copy"
  /\ Consumed(upload) < upload.body
  /\ upload' = [upload EXCEPT !.pc = "done", !.status = "400"]
  /\ UNCHANGED <<limiterVars, ghostVars, serverVars, dlVars, single, stats, concVars, params, update>>

\* ------------------------------------------- IsAllowed, statement by statement

Callers == 1 .. NumCallers

\* A lock that never makes a caller wait.
mutexFree_Always(locked) == TRUE

\* cl.mu.Lock() returns only when no goroutine holds the lock
mutexFree(locked) == ~locked

\* the map when IsAllowed reaches its last block or returns before it: the
\* record exists and, past the blocked test, is pruned; a per-client denial
\* has set the block
checkedClients(cs, wl, ip, t, gl, pl, w) ==
  LET why == IsAllowedOutcome(cs, wl, ip, t, gl, pl, w)
      c0 == getOrCreateClient(cs, ip, t)
      pruned == [c0 EXCEPT ![ip].Requests = validRequests(c0[ip].Requests, t, w)]
  IN CASE why = "whitelist" -> updateClientInfo(cs, ip, t)
       [] why = "blocked" -> c0
       [] why = "perClient" ->
            [pruned EXCEPT ![ip].IsBlocked = TRUE, ![ip].BlockedUntil = t + BlockDuration]
       [] OTHER -> pruned

\* the last block of IsAllowed: the request is recorded
recordedClients(cs, ip, t) ==
  [cs EXCEPT ![ip].Requests = Append(@, t),
             ![ip].TotalRequests = @ + 1,
             ![ip].LastSeen = t,
             ![ip].IsBlocked = FALSE]

OffCall == [pc |-> "off", t |-> ZeroTime, found |-> <<>>, why |-> "none", ok |-> FALSE]

ConcOff ==
  /\ mu = FALSE
  /\ calls = [i \in Callers |-> OffCall]
  /\ allowance = [client |-> 0, global |-> 0]

\* the record of a client whose h requests at time t were all allowed
ServedClient(h, t) ==
  [NewClientInfo(t) EXCEPT !.Requests = [j \in 1 .. h |-> t], !.TotalRequests = h]

\* k goroutines are about to call IsAllowed(Observed) at time 0; Observed has
\* been allowed h requests and the other client hb requests at that time.
ConcInit ==
  /\ whitelist = {}
  /\ \E c \in Configs : globalLimit = c[1] /\ perClientLimit = c[2] /\ timeWindow = c[3]
  /\ now = 0
  /\ ret = NoRet
  /\ allowLog = <<>>
  /\ blockedAt = ZeroTime
  /\ \E h \in 0 .. perClientLimit, hb \in 0 .. perClientLimit :
       /\ h + hb <= globalLimit
       /\ clients = [ip \in {x \in IPs : (x = Observed /\ h > 0) \/ (x # Observed /\ hb > 0)} |->
                       ServedClient(IF ip = Observed THEN h ELSE hb, 0)]
       /\ allowance = [client |-> perClientLimit - h, global |-> globalLimit - (h + hb)]
  /\ mu = FALSE
  /\ \E k \in Callers :
       calls = [i \in Callers |-> IF i <= k THEN [OffCall EXCEPT !.pc = "lock"] ELSE OffCall]

\* cl.mu.Lock(); defer cl.mu.Unlock(); now := time.Now()
CallLock(i) ==
  /\ calls[i].pc = "lock"
  /\ mutexFree(mu)
  /\ mu' = TRUE
  /\ calls' = [calls EXCEPT ![i].pc = "check", ![i].t = now, ![i].found = clients]
  /\ UNCHANGED <<limiterVars, ghostVars, serverVars, dlVars, single, stats, upload, allowance, params, update>>

\* from the whitelist test to the global test: every return but the last
CallCheck(i) ==
  /\ calls[i].pc = "check"
  /\ LET why == IsAllowedOutcome(clients, whitelist, Observed, calls[i].t,
                                   globalLimit, perClientLimit, timeWindow)
     IN /\ clients' = checkedClients(clients, whitelist, Observed, calls[i].t,
                                      globalLimit, perClientLimit, timeWindow)
        /\ calls' = [calls EXCEPT ![i].why = why,
                                  ![i].pc = IF why = "ok" THEN "record" ELSE "return"]
  /\ UNCHANGED <<whitelist, globalLimit, perClientLimit, timeWindow, now, ghostVars,
                 serverVars, dlVars, single, stats, upload, mu, allowance, params, update>>

\* "Allow request and record it"
CallRecord(i) ==
  /\ calls[i].pc = "record"
  /\ clients' = recordedClients(clients, Observed, calls[i].t)
  /\ calls' = [calls EXCEPT ![i].pc = "return"]
  /\ UNCHANGED <<whitelist, globalLimit, perClientLimit, timeWindow, now, ghostVars,
                 serverVars, dlVars, single, stats, upload, mu, allowance, params, update>>

\* return: the deferred cl.mu.Unlock() runs and the caller has its answer
CallUnlock(i) ==
  /\ calls[i].pc = "return"
  /\ mu' = FALSE
  /\ calls' = [calls EXCEPT ![i].pc = "done", ![i].ok = Allowed(calls[i].why)]
  /\ UNCHANGED <<limiterVars, ghostVars, serverVars, dlVars, single, stats, upload, allowance, params, update>>

\* ------------------------------- UpdateLimits beside IsAllowed, by statement

\* the goroutines calling IsAllowed while UpdateLimits runs
Readers == 1 .. 2

\* a limit a call has not read
Unread == -1

OffReader == [pc |-> "off", ip |-> "", t |-> ZeroTime, found |-> <<>>, after |-> FALSE,
              w |-> Unread, pl |-> Unread, gl |-> Unread, w2 |-> Unread, why |-> "none"]

NoUpdate == [pc |-> "off", old |-> <<0, 0, 0>>, new |-> <<0, 0, 0>>,
             rd |-> [r \in Readers |-> OffReader]]

\* UpdateLimits(new) and two calls of IsAllowed are about to run at time 0 or
\* 1; the records hold the requests allowed at time 0 under the old limits.
UpdateInit ==
  /\ \E old \in Reconfigs, new \in Reconfigs, ipOf \in [Readers -> IPs] :
       /\ old # new
       /\ globalLimit = old[1] /\ perClientLimit = old[2] /\ timeWindow = old[3]
       /\ update = [pc |-> "lock", old |-> old, new |-> new,
                    rd |-> [r \in Readers |-> [OffReader EXCEPT !.pc = "lock", !.ip = ipOf[r]]]]
  /\ \E h \in 0 .. perClientLimit, hb \in 0 .. perClientLimit :
       /\ h + hb <= globalLimit
       /\ clients = [ip \in {x \in IPs : (x = Observed /\ h > 0) \/ (x # Observed /\ hb > 0)} |->
                       ServedClient(IF ip = Observed THEN h ELSE hb, 0)]
  /\ whitelist \in {{}, Whitelistable}
  /\ now \in {0, 1}
  /\ ret = NoRet /\ allowLog = <<>> /\ blockedAt = ZeroTime
  /\ mu = FALSE
  /\ calls = [i \in Callers |-> OffCall]
  /\ allowance = [client |-> 0, global |-> 0]

\* UpdateLimits: cl.mu.Lock(); defer cl.mu.Unlock()
UpdLock ==
  /\ update.pc = "lock"
  /\ mutexFree(mu)
  /\ mu' = TRUE
  /\ update' = [update EXCEPT !.pc = "global"]
  /\ UNCHANGED <<limiterVars, ghostVars, serverVars, dlVars, single, stats, upload,
                 calls, allowance, params>>

\* cl.globalLimit = globalLimit
UpdGlobal ==
  /\ update.pc = "global"
  /\ globalLimit' = update.new[1]
  /\ update' = [update EXCEPT !.pc = "perClient"]
  /\ UNCHANGED <<clients, whitelist, perClientLimit, timeWindow, now, ghostVars, serverVars,
                 dlVars, single, stats, upload, concVars, params>>

\* cl.perClientLimit = perClientLimit
UpdPerClient ==
  /\ update.pc = "perClient"
  /\ perClientLimit' = update.new[2]
  /\ update' = [update EXCEPT !.pc = "window"]
  /\ UNCHANGED <<clients, whitelist, globalLimit, timeWindow, now, ghostVars, serverVars,
                 dlVars, single, stats, upload, concVars, params>>

\* cl.timeWindow = timeWindow
UpdWindow ==
  /\ update.pc = "window"
  /\ timeWindow' = update.new[3]
  /\ update' = [update EXCEPT !.pc = "return"]
  /\ UNCHANGED <<clients, whitelist, globalLimit, perClientLimit, now, ghostVars, serverVars,
                 dlVars, single, stats, upload, concVars, params>>

\* return: the deferred cl.mu.Unlock() runs
UpdUnlock ==
  /\ update.pc = "return"
  /\ mu' = FALSE
  /\ update' = [update EXCEPT !.pc = "done"]
  /\ UNCHANGED <<limiterVars, ghostVars, serverVars, dlVars, single, stats, upload,
                 calls, allowance, params>>

\* IsAllowed: cl.mu.Lock(); defer cl.mu.Unlock(); now := time.Now()
RdLock(r) ==
  /\ update.rd[r].pc = "lock"
  /\ mutexFree(mu)
  /\ mu' = TRUE
  /\ update' = [update EXCEPT !.rd[r].pc = "whitelist", !.rd[r].t = now,
                              !.rd[r].found = clients,
                              !.rd[r].after = (update.pc = "done")]
  /\ UNCHANGED <<limiterVars, ghostVars, serverVars, dlVars, single, stats, upload,
                 calls, allowance, params>>

\* the whitelist test, getOrCreateClient and the blocked test
RdWhitelist(r) ==
  LET me == update.rd[r]
      c0 == getOrCreateClient(clients, me.ip, me.t)
  IN /\ me.pc = "whitelist"
     /\ IF me.ip \in whitelist
        THEN /\ clients' = updateClientInfo(clients, me.ip, me.t)
             /\ update' = [update EXCEPT !.rd[r].pc = "return", !.rd[r].why = "whitelist"]
        ELSE /\ clients' = c0
             /\ update' = IF c0[me.ip].IsBlocked /\ me.t < c0[me.ip].BlockedUntil
                          THEN [update EXCEPT !.rd[r].pc = "return", !.rd[r].why = "blocked"]
                          ELSE [update EXCEPT !.rd[r].pc = "prune"]
     /\ UNCHANGED <<whitelist, globalLimit, perClientLimit, timeWindow, now, ghostVars,
                    serverVars, dlVars, single, stats, upload, concVars, params>>

\* cutoff := now.Add(-cl.timeWindow) and the pruning loop
RdPrune(r) ==
  LET me == update.rd[r]
  IN /\ me.pc = "prune"
     /\ clients' = [clients EXCEPT ![me.ip].Requests = validRequests(@, me.t, timeWindow)]
     /\ update' = [update EXCEPT !.rd[r].pc = "perClient", !.rd[r].w = timeWindow]
     /\ UNCHANGED <<whitelist, globalLimit, perClientLimit, timeWindow, now, ghostVars,
                    serverVars, dlVars, single, stats, upload, concVars, params>>

\* if len(client.Requests) >= cl.perClientLimit
RdPerClient(r) ==
  LET me == update.rd[r]
  IN /\ me.pc = "perClient"
     /\ IF Len(clients[me.ip].Requests) >= perClientLimit
        THEN /\ clients' = [clients EXCEPT ![me.ip].IsBlocked = TRUE,
                                           ![me.ip].BlockedUntil = me.t + BlockDuration]
             /\ update' = [update EXCEPT !.rd[r].pc = "return", !.rd[r].why = "perClient",
                                         !.rd[r].pl = perClientLimit]
        ELSE /\ clients' = clients
             /\ update' = [update EXCEPT !.rd[r].pc = "global", !.rd[r].pl = perClientLimit]
     /\ UNCHANGED <<whitelist, globalLimit, perClientLimit, timeWindow, now, ghostVars,
                    serverVars, dlVars, single, stats, upload, concVars, params>>

\* the global test, with the window read again by getTotalActiveRequests, and
\* the recording of the request
RdGlobal(r) ==
  LET me == update.rd[r]
  IN /\ me.pc = "global"
     /\ IF getTotalActiveRequests(clients, me.t, timeWindow) >= globalLimit
        THEN /\ clients' = clients
             /\ update' = [update EXCEPT !.rd[r].pc = "return", !.rd[r].why = "global",
                                         !.rd[r].gl = globalLimit, !.rd[r].w2 = timeWindow]
        ELSE /\ clients' = recordedClients(clients, me.ip, me.t)
             /\ update' = [update EXCEPT !.rd[r].pc = "return", !.rd[r].why = "ok",
                                         !.rd[r].gl = globalLimit, !.rd[r].w2 = timeWindow]
     /\ UNCHANGED <<whitelist, globalLimit, perClientLimit, timeWindow, now, ghostVars,
                    serverVars, dlVars, single, stats, upload, concVars, params>>

\* return: the deferred cl.mu.Unlock() runs
RdUnlock(r) ==
  /\ update.rd[r].pc = "return"
  /\ mu' = FALSE
  /\ update' = [update EXCEPT !.rd[r].pc = "done"]
  /\ UNCHANGED <<limiterVars, ghostVars, serverVars, dlVars, single, stats, upload,
                 calls, allowance, params>>

\* the side variables when what they describe is not modelled
SideOff ==
  /\ single = NoSingle /\ stats = NoStats /\ upload = NoUpload /\ ConcOff
  /\ params = NoParams /\ update = NoUpdate

\* the limiter as handlers.New builds it, scaled down: NewClientLimiter(100,
\* 10, time.Minute) keeps a window of one minute
ServerConfigs == {<<3, 2, 1>>, <<1, 1, 1>>}

ServerLimiterInit ==
  /\ clients = <<>>
  /\ whitelist = {}
  /\ \E c \in ServerConfigs : globalLimit = c[1] /\ perClientLimit = c[2] /\ timeWindow = c[3]
  /\ now = 0
  /\ ret = NoRet
  /\ allowLog = <<>>
  /\ blockedAt = ZeroTime

LimiterOff ==
  /\ clients = <<>>
  /\ whitelist = {}
  /\ globalLimit = 3 /\ perClientLimit = 2 /\ timeWindow = 1
  /\ now = 0
  /\ ret = NoRet
  /\ allowLog = <<>>
  /\ blockedAt = ZeroTime

\* ------------------------------------------------------------ specifications

\* The ClientLimiter under a fixed configuration, called directly.
Init == LimiterInit /\ ServerOff /\ DlOff /\ SideOff

Next ==
  \/ \E ip \in IPs : IsAllowed(ip)
  \/ \E ip \in Whitelistable : AddToWhitelist(ip)
  \/ \E ip \in Whitelistable : RemoveFromWhitelist(ip)
  \/ cleanupExpiredEntries
  \/ \E t \in Instants : Tick(t)

Spec == Init /\ [][Next]_vars

\* The ClientLimiter with the active-test counters driven directly.
InitActive == ServerLimiterInit /\ ServerOff /\ DlOff /\ SideOff

NextActive ==
  \/ \E ip \in IPs : IsAllowed(ip)
  \/ \E ip \in IPs : IncrementActiveTests(ip)
  \/ \E ip \in IPs : DecrementActiveTests(ip)
  \/ cleanupExpiredEntries
  \/ \E t \in Instants : Tick(t)

SpecActive == InitActive /\ [][NextActive]_vars

\* The ClientLimiter reconfigured at run time: the limits go down and up, the
\* window shrinks and grows.
InitReconfig ==
  /\ LimiterInit
  /\ <<globalLimit, perClientLimit, timeWindow>> \in Reconfigs
  /\ ServerOff
  /\ DlOff /\ SideOff

NextReconfig ==
  \/ \E ip \in IPs : IsAllowed(ip)
  \/ \E ip \in Whitelistable : AddToWhitelist(ip)
  \/ \E ip \in Whitelistable : RemoveFromWhitelist(ip)
  \/ \E c \in Reconfigs : UpdateLimits(c[1], c[2], c[3])
  \/ cleanupExpiredEntries
  \/ \E t \in Instants : Tick(t)

SpecReconfig == InitReconfig /\ [][NextReconfig]_vars

\* The gate in front of handlers that do not use the limiter.
InitGate == LimiterOff /\ ServerInit /\ DlOff /\ SideOff

NextGate ==
  \/ \E r \in Reqs, k \in PlainKinds : Arrive(r, k)
  \/ \E r \in Reqs, how \in Exits : PlainExit(r, how)
  \/ \E r \in Reqs : Leave(r)

SpecGate == InitGate /\ [][NextGate]_vars

\* The test routes: gate, limiter and handler together.
TestReqs == 1 .. 2

InitServer == ServerLimiterInit /\ ServerInit /\ DlOff /\ SideOff

NextServer ==
  \/ \E r \in TestReqs, k \in TestKinds : Arrive(r, k)
  \/ \E r \in TestReqs : HandlerCheck(r)
  \/ \E r \in TestReqs : HandlerIncrement(r)
  \/ \E r \in TestReqs, how \in Exits : HandlerExit(r, how)
  \/ \E r \in TestReqs : Leave(r)
  \/ cleanupExpiredEntries
  \/ \E t \in Instants : Tick(t)

SpecServer == InitServer /\ [][NextServer]_vars

\* The test routes under every request header the middleware looks at.
InitHeaders == ServerLimiterInit /\ ServerInit /\ DlOff /\ SideOff

NextHeaders ==
  \/ \E r \in TestReqs, k \in HeaderKinds : Arrive(r, k)
  \/ \E r \in TestReqs : HandlerCheck(r)
  \/ \E r \in TestReqs : HandlerIncrement(r)
  \/ \E r \in TestReqs, how \in Exits : HandlerExit(r, how)
  \/ \E r \in TestReqs : Leave(r)

SpecHeaders == InitHeaders /\ [][NextHeaders]_vars

\* The gate as the server builds it when MAX_CONCURRENT_REQUESTS is unset.
InitDefault == LimiterOff /\ ServerInitDefault /\ DlOff /\ SideOff

SpecDefault == InitDefault /\ [][NextGate]_vars

\* The jitter endpoint next to a test route of the same client.
JitterKinds == {[route |-> "download", ip |-> "a", upgrade |-> FALSE],
                [route |-> "ws", ip |-> "a", upgrade |-> TRUE]}

InitJitter == ServerLimiterInit /\ ServerInit /\ DlOff /\ SideOff

NextJitter ==
  \/ \E r \in TestReqs, k \in JitterKinds : Arrive(r, k)
  \/ \E r \in TestReqs : HandlerCheck(r)
  \/ \E r \in TestReqs : HandlerIncrement(r)
  \/ \E r \in TestReqs, how \in Exits : HandlerExit(r, how)
  \/ \E r \in TestReqs, ok \in BOOLEAN : WebSocket(r, ok)
  \/ \E r \in TestReqs : WebSocketClose(r)
  \/ \E r \in TestReqs : Leave(r)
  \/ \E t \in Instants : Tick(t)

SpecJitter == InitJitter /\ [][NextJitter]_vars

\* The ClientLimiter observed through GetStats.
InitStats == ServerLimiterInit /\ ServerOff /\ DlOff /\ SideOff

NextStats ==
  \/ IsAllowed(Observed)
  \/ \E ip \in Whitelistable : AddToWhitelist(ip)
  \/ \E ip \in Whitelistable : IncrementActiveTests(ip)
  \/ \E t \in Instants : Tick(t)
  \/ GetStatsCall

SpecStats == InitStats /\ [][NextStats]_vars

\* UpdateLimits running beside two calls of IsAllowed.
InitUpdate ==
  /\ UpdateInit /\ ServerOff /\ DlOff
  /\ single = NoSingle /\ stats = NoStats /\ upload = NoUpload /\ params = NoParams

NextUpdate ==
  \/ UpdLock
  \/ UpdGlobal
  \/ UpdPerClient
  \/ UpdWindow
  \/ UpdUnlock
  \/ \E r \in Readers :
       \/ RdLock(r)
       \/ RdWhitelist(r)
       \/ RdPrune(r)
       \/ RdPerClient(r)
       \/ RdGlobal(r)
       \/ RdUnlock(r)

SpecUpdate == InitUpdate /\ [][NextUpdate]_vars

\* Every operation of the ClientLimiter, the whitelist changing under them.
InitWhitelist == ServerLimiterInit /\ ServerOff /\ DlOff /\ SideOff

NextWhitelist ==
  \/ \E ip \in Whitelistable : IsAllowed(ip)
  \/ \E ip \in Whitelistable : AddToWhitelist(ip)
  \/ \E ip \in Whitelistable : RemoveFromWhitelist(ip)
  \/ \E ip \in Whitelistable : IncrementActiveTests(ip)
  \/ \E ip \in Whitelistable : DecrementActiveTests(ip)
  \/ \E c \in ServerConfigs : UpdateLimits(c[1], c[2], c[3])
  \/ GetStatsCall
  \/ cleanupExpiredEntries
  \/ \E t \in {1, LongSleep} : Tick(t)

SpecWhitelist == InitWhitelist /\ [][NextWhitelist]_vars

\* The test routes asked for by a client that is put on the whitelist and
\* taken off it.
InitListed == ServerLimiterInit /\ ServerInit /\ DlOff /\ SideOff

NextListed ==
  \/ \E r \in TestReqs, k \in TestKinds : Arrive(r, k)
  \/ \E r \in TestReqs : HandlerCheck(r)
  \/ \E r \in TestReqs : HandlerIncrement(r)
  \/ \E r \in TestReqs, how \in Exits : HandlerExit(r, how)
  \/ \E r \in TestReqs : Leave(r)
  \/ \E ip \in Whitelistable : AddToWhitelist(ip)
  \/ \E ip \in Whitelistable : RemoveFromWhitelist(ip)

SpecListed == InitListed /\ [][NextListed]_vars

\* The ClientLimiter with tests starting and ending between the requests.
InitTests == ServerLimiterInit /\ ServerOff /\ DlOff /\ SideOff

NextTests ==
  \/ \E ip \in IPs : IsAllowed(ip)
  \/ \E ip \in IPs : IncrementActiveTests(ip)
  \/ \E ip \in IPs : DecrementActiveTests(ip)
  \/ \E t \in {1, BlockDuration} : Tick(t)

SpecTests == InitTests /\ [][NextTests]_vars

\* The ClientLimiter under the traffic of a client that is put on the
\* whitelist and taken off it, beside a client that is not.
InitTraffic == ServerLimiterInit /\ ServerOff /\ DlOff /\ SideOff

NextTraffic ==
  \/ \E ip \in IPs : IsAllowed(ip)
  \/ \E ip \in Whitelistable : AddToWhitelist(ip)
  \/ \E ip \in Whitelistable : RemoveFromWhitelist(ip)
  \/ \E t \in {1, BlockDuration} : Tick(t)

SpecTraffic == InitTraffic /\ [][NextTraffic]_vars

\* Concurrent calls of IsAllowed for one client.
InitConcurrent ==
  /\ ConcInit /\ ServerOff /\ DlOff
  /\ single = NoSingle /\ stats = NoStats /\ upload = NoUpload /\ params = NoParams
  /\ update = NoUpdate

NextConcurrent ==
  \E i \in Callers :
    \/ CallLock(i)
    \/ CallCheck(i)
    \/ CallRecord(i)
    \/ CallUnlock(i)

SpecConcurrent == InitConcurrent /\ [][NextConcurrent]_vars

\* The parameters of one download.
InitParams ==
  /\ LimiterOff /\ ServerOff /\ DlOff
  /\ single = NoSingle /\ stats = NoStats /\ upload = NoUpload /\ ConcOff /\ ParamsInit
  /\ update = NoUpdate

NextParams ==
  \/ ParseParams
  \/ Dispatch

SpecParams == InitParams /\ [][NextParams]_vars

\* One upload.
InitUpload ==
  /\ LimiterOff /\ ServerOff /\ DlOff
  /\ single = NoSingle /\ stats = NoStats /\ UploadInit /\ ConcOff /\ params = NoParams
  /\ update = NoUpdate

NextUpload ==
  \/ \E k \in 1 .. (UploadLimit + 1) : UploadRead(k)
  \/ UploadEOF
  \/ UploadAbort

SpecUpload == InitUpload /\ [][NextUpload]_vars

\* One single-stream download.
InitSingle ==
  /\ LimiterOff /\ ServerOff /\ DlOff
  /\ SingleInit /\ stats = NoStats /\ upload = NoUpload /\ ConcOff /\ params = NoParams
  /\ update = NoUpdate

NextSingle ==
  \/ \E ok \in BOOLEAN : SingleWrite(ok)
  \/ SingleCancel

SpecSingle == InitSingle /\ [][NextSingle]_vars

\* One chunked download.
InitDownload == LimiterOff /\ ServerOff /\ DlInit /\ SideOff

NextDownload ==
  \/ \E i \in Workers : RunWorker(i)
  \/ Closer
  \/ CoordReceive
  \/ CoordClosed
  \/ CoordCancelled
  \/ \E ok \in BOOLEAN : CoordWrite(ok)
  \/ Cancel

SpecDownload == InitDownload /\ [][NextDownload]_vars
\* The same with the scheduler's guarantees: every goroutine that can take a
\* step takes one, and a select with a ready case completes.
FairDownload ==
  /\ \A i \in 0 .. (MaxChunks - 1) : WF_vars(i \in Workers /\ RunWorker(i))
  /\ WF_vars(Closer)
  /\ WF_vars(CoordReceive)
  /\ WF_vars(CoordClosed)
  /\ WF_vars(\E ok \in BOOLEAN : CoordWrite(ok))

SpecDownloadFair == InitDownload /\ [][NextDownload]_vars /\ FairDownload

\* ------------------------------------------------------------------- claims

\* "Default Maximum Concurrent Requests: 8" of CONCURRENT_REQUESTS.md
DocumentedDefault == 8

\* the allowed calls of Observed that fall in the window of length w ending at s
AllowedInWindow(s, w) ==
  Cardinality({i \in DOMAIN allowLog : allowLog[i] > s - w /\ allowLog[i] <= s})

\* C1: with the configuration fixed, the calls of a never-whitelisted client
\* for which IsAllowed returned true, inside any window of length timeWindow,
\* are at most perClientLimit.
C1_AllowedWithinWindow ==
  \A s \in Instants : AllowedInWindow(s, timeWindow) <= perClientLimit

\* the aggregate in-window count at the current instant
Aggregate == getTotalActiveRequests(clients, now, timeWindow)

\* what the cooldown set at blockedAt means for a call of IsAllowed(Observed)
CooldownRule ==
  /\ now < blockedAt + BlockDuration =>
       /\ ~ret'.ok
       /\ clients'[Observed].BlockedUntil = blockedAt + BlockDuration
  /\ (now >= blockedAt + BlockDuration /\ Aggregate < globalLimit) => ret'.ok

C3_AllowWithinGlobalLimit ==
  [][\A ip \in IPs : (IsAllowed(ip) /\ ret'.ok) =>
        getTotalActiveRequests(clients', now, timeWindow) <= globalLimit]_vars

\* C3 amended: every IsAllowed decision for a client that is not whitelisted
\* and that returns allow leaves the aggregate in-window count at most
\* globalLimit, and such a client is denied when the aggregate has reached it.
C3_WindowAllowWithinGlobalLimit ==
  [][\A ip \in IPs : (IsAllowed(ip) /\ ip \notin whitelist) =>
        /\ ret'.ok => getTotalActiveRequests(clients', now, timeWindow) <= globalLimit
        /\ Aggregate >= globalLimit => ~ret'.ok]_vars

\* two clients fill the global limit, the last call being allowed
C3_Witness ==
  /\ ret.why = "ok"
  /\ Cardinality(DOMAIN clients) = 2
  /\ \A ip \in DOMAIN clients : clients[ip].Requests # <<>>
  /\ globalLimit = 3
  /\ Aggregate = globalLimit

Holding == {r \in Reqs : reqs[r].tok = "held"}

\* C4: with capacity N > 0 the tokens outstanding are between 0 and N; with
\* N = 0 no request is rejected.
C4_TokensWithinCapacity ==
  /\ maxReqs > 0 => /\ semaphore = Cardinality(Holding)
                    /\ semaphore >= 0
                    /\ semaphore <= maxReqs
  /\ maxReqs = 0 => /\ semaphore = 0
                    /\ \A r \in Reqs : reqs[r].resp # "503"

\* every token is out and a further request was turned away
C4_Witness ==
  /\ maxReqs = 2
  /\ semaphore = maxReqs
  /\ \E r \in Reqs : reqs[r].resp = "503"

\* the requests to gated routes whose handler is running
Executing ==
  {r \in Reqs : /\ Gated(reqs[r].kind.route)
                /\ reqs[r].pc \in {"handler", "allowed", "active"}}

\* C5: with the gate enabled at most N handlers of gated routes run at once,
\* and each of them holds a token.
C5_GatedHandlersHoldToken ==
  maxReqs > 0 => /\ Cardinality(Executing) <= maxReqs
                 /\ \A r \in Executing : reqs[r].tok = "held"

\* a request that reaches the select of the middleware
AcquireAttempt(r, k) ==
  /\ Arrive(r, k)
  /\ Gated(k.route)
  /\ ~k.upgrade
  /\ maxReqs > 0

Attempted ==
  {r \in Reqs : /\ reqs[r].pc # "idle"
                /\ Gated(reqs[r].kind.route)
                /\ ~reqs[r].kind.upgrade}

Admitted == {r \in Attempted : reqs[r].pc = "handler"}
Rejected == {r \in Attempted : reqs[r].pc = "done" /\ reqs[r].resp = "503"}

\* no admitted request has left its handler yet
NoneCompleted == Attempted = Admitted \cup Rejected

Min(x, y) == IF x < y THEN x ELSE y

C7_TokenReleasedOnEveryExit ==
  /\ [](/\ semaphore = Cardinality(Holding)
        /\ \A r \in Reqs : reqs[r].pc = "done" => reqs[r].tok # "held"
        /\ (\A r \in Reqs : reqs[r].pc \in {"idle", "done"}) => semaphore = 0)
  /\ [][/\ semaphore' < semaphore =>
             \E r \in Reqs : /\ reqs[r].tok = "held"
                             /\ reqs[r].pc = "returned"
                             /\ reqs'[r].tok = "released"
                             /\ semaphore' = semaphore - 1
        /\ \A r \in Reqs : reqs[r].tok = "released" => reqs'[r].tok = "released"]_vars

\* a handler that panicked has given its token back
C7_Witness ==
  /\ semaphore = 0
  /\ \E r \in Reqs : reqs[r].resp = "panic" /\ reqs[r].tok = "released"
  /\ \E r \in Reqs : reqs[r].resp = "aborted" /\ reqs[r].tok = "released"

ActiveOf(ip) == IF ip \in DOMAIN clients THEN clients[ip].ActiveTests ELSE 0

\* the handlers of ip between IncrementActiveTests and their return
InFlight(ip) == {r \in Reqs : reqs[r].kind.ip = ip /\ reqs[r].pc = "active"}

\* C8: a client's ActiveTests is the number of its Download and Upload
\* handlers that have incremented it and not yet returned.
C8_ActiveTestsCountsHandlers ==
  \A ip \in IPs : ActiveOf(ip) = Cardinality(InFlight(ip))

\* one test of a client ended in a panic while another one is still running
C8_Witness ==
  \E r1, r2 \in Reqs :
    /\ reqs[r1].resp = "panic"
    /\ reqs[r2].pc = "active"
    /\ reqs[r1].kind.ip = reqs[r2].kind.ip
    /\ ActiveOf(reqs[r1].kind.ip) = 1

RECURSIVE SumSizes(_)
SumSizes(fs) == IF fs = <<>> THEN 0 ELSE Head(fs).size + SumSizes(Tail(fs))

Indices(fs) == {fs[j].index : j \in DOMAIN fs}

\* the download ran to the end of the queue and the client stayed
Completed == coord = "closed" /\ ~cancelled

\* C9: absent cancellation the lengths of the emitted chunks sum to totalSize.
C9_ChunkLengthsSumToTotal ==
  Completed => SumSizes(emitted) = totalSize

AllIndicesOnce(fs) ==
  /\ Len(fs) = numChunks
  /\ Indices(fs) = 0 .. (numChunks - 1)

C11_WhitelistedAlwaysAllowed ==
  [][\A ip \in IPs : (IsAllowed(ip) /\ ip \in whitelist) =>
        (ret'.ok /\ ret'.why = "whitelist")]_vars

\* a whitelisted client with an unexpired block has just been allowed while
\* the aggregate stands at the global limit
C11_Witness ==
  /\ ret.ok /\ ret.why = "whitelist"
  /\ ret.ip \in whitelist
  /\ ret.ip \in DOMAIN clients
  /\ clients[ret.ip].IsBlocked
  /\ now < clients[ret.ip].BlockedUntil
  /\ clients[ret.ip].TotalRequests = 2
  /\ Aggregate >= globalLimit

\* C12: ActiveTests is never negative; DecrementActiveTests at count 0, or for
\* a client without a record, changes no record and creates none, and
\* otherwise lowers the one count by one.
C12_DecrementFloorsAtZero ==
  /\ [](\A ip \in DOMAIN clients : clients[ip].ActiveTests >= 0)
  /\ [][\A ip \in IPs : DecrementActiveTests(ip) =>
          /\ ActiveOf(ip) = 0 => clients' = clients
          /\ ActiveOf(ip) > 0 =>
               clients' = [clients EXCEPT ![ip].ActiveTests = @ - 1]]_vars

\* the last call was a decrement for a client without a record, and there is
\* still no record for it, next to a record whose count is 0
C12_Witness ==
  /\ ret.why = "decrement"
  /\ ret.ip \notin DOMAIN clients
  /\ \E ip \in DOMAIN clients : clients[ip].ActiveTests = 0

\* C13: the reaper deletes a record only if its LastSeen is more than 24 hours
\* old and its ActiveTests is 0, and leaves the other records as they are; no
\* step of the limiter removes a record whose ActiveTests is above 0.
C13_ReaperSparesActiveClients ==
  /\ [][cleanupExpiredEntries =>
          \A ip \in DOMAIN clients :
            IF ip \in DOMAIN clients'
            THEN clients'[ip] = clients[ip]
            ELSE /\ clients[ip].LastSeen < now - Retention
                 /\ clients[ip].ActiveTests = 0]_vars
  /\ [][\A ip \in DOMAIN clients :
          clients[ip].ActiveTests > 0 => ip \in DOMAIN clients']_vars

\* the reaper has removed the record of the client of the last IsAllowed call
\* and kept a record just as old that has a test in flight
C13_Witness ==
  /\ ret.why \notin {"none", "decrement"}
  /\ ret.ip \notin DOMAIN clients
  /\ \E ip \in DOMAIN clients : /\ clients[ip].ActiveTests > 0
                                /\ clients[ip].LastSeen < now - Retention

\* the decision IsAllowed would take for ip in the current state
WouldAllow(ip) ==
  Allowed(IsAllowedOutcome(clients, whitelist, ip, now, globalLimit, perClientLimit,
                           timeWindow))

\* C14: a WebSocket upgrade proceeds only for a client that the limiter allows
\* at that moment; a client that is blocked or over its per-client limit is
\* refused.
C14_UpgradeGovernedByLimiter ==
  [][\A r \in TestReqs :
       (reqs[r].kind.route = "ws" /\ WebSocket(r, TRUE)) =>
          WouldAllow(reqs[r].kind.ip)]_vars

\* C15: with MAX_CONCURRENT_REQUESTS unset the gate has the documented default
\* capacity, so that requests beyond it are answered 503.
C15_DefaultGateIsDocumented ==
  maxReqs = DocumentedDefault

RECURSIVE SumSeq(_)
SumSeq(q) == IF q = <<>> THEN 0 ELSE Head(q) + SumSeq(Tail(q))

\* C16: a single-stream download that ran to its end without cancellation or
\* write error has written exactly size bytes, in blocks of BufferLen bytes
\* with only the last one possibly shorter, under Content-Length size.
C16_SingleStreamWritesSize ==
  (single.pc = "done" /\ ~single.ctxDone) =>
     /\ SumSeq(single.blocks) = single.size
     /\ single.written = single.size
     /\ single.contentLength = single.size
     /\ \A i \in DOMAIN single.blocks :
          /\ single.blocks[i] > 0
          /\ single.blocks[i] <= BufferLen
          /\ i < Len(single.blocks) => single.blocks[i] = BufferLen

\* a completed download of more than one buffer whose last block is short
C16_Witness ==
  /\ single.pc = "done"
  /\ ~single.ctxDone
  /\ Len(single.blocks) >= 2
  /\ single.blocks[Len(single.blocks)] < BufferLen

\* C17: a denial by the global limit leaves every other record as it is and
\* changes the caller's record only by pruning the timestamps that have left
\* the window (a caller without a record gets a fresh, empty one): no
\* timestamp is added, TotalRequests, LastSeen, the blocked flag and the block
\* expiry stay.
C17_GlobalDenialRecordsNothing ==
  [][\A ip \in IPs : (IsAllowed(ip) /\ ret'.why = "global") =>
        /\ ~ret'.ok
        /\ DOMAIN clients' = DOMAIN clients \cup {ip}
        /\ \A k \in DOMAIN clients \ {ip} : clients'[k] = clients[k]
        /\ IF ip \in DOMAIN clients
           THEN /\ clients'[ip].Requests =
                     SelectSeq(clients[ip].Requests, LAMBDA q : q > now - timeWindow)
                /\ clients'[ip].TotalRequests = clients[ip].TotalRequests
                /\ clients'[ip].LastSeen = clients[ip].LastSeen
                /\ clients'[ip].IsBlocked = clients[ip].IsBlocked
                /\ clients'[ip].BlockedUntil = clients[ip].BlockedUntil
                /\ clients'[ip].ActiveTests = clients[ip].ActiveTests
           ELSE clients'[ip] = NewClientInfo(now)]_vars

\* a client with earlier requests has just been denied by the global limit:
\* its expired timestamp is pruned and it is not blocked
C17_Witness ==
  /\ ret.why = "global"
  /\ ret.ip \in DOMAIN clients
  /\ clients[ret.ip].TotalRequests >= 1
  /\ clients[ret.ip].Requests = <<>>
  /\ clients[ret.ip].LastSeen < now
  /\ ~clients[ret.ip].IsBlocked

\* C18: GetStats writes nothing of the limiter, and the map it returns
\* describes the state at the call: total_clients is the number of records,
\* total_active_tests the sum of their ActiveTests, blocked_clients the number
\* of records whose block has not expired, whitelist_count the size of the
\* whitelist.
C18_GetStatsReadsOneState ==
  [][GetStatsCall =>
       /\ UNCHANGED limiterVars
       /\ stats'.total_clients = Cardinality(DOMAIN clients)
       /\ stats'.total_active_tests = SumOver([ip \in IPs |-> ActiveOf(ip)], IPs)
       /\ stats'.blocked_clients =
            Cardinality({ip \in DOMAIN clients :
                           clients[ip].IsBlocked /\ now < clients[ip].BlockedUntil})
       /\ stats'.whitelist_count = Cardinality(whitelist)
       /\ stats'.global_limit = globalLimit
       /\ stats'.per_client_limit = perClientLimit]_vars

\* statistics taken of two records, one with a test running and one whose
\* block has expired with the flag still set, and a whitelist of one
C18_Witness ==
  /\ stats = GetStats(clients, whitelist, globalLimit, perClientLimit, timeWindow, now)
  /\ stats.total_clients = 2
  /\ stats.total_active_tests = 1
  /\ stats.whitelist_count = 1
  /\ stats.blocked_clients = 0
  /\ \E ip \in DOMAIN clients : clients[ip].IsBlocked

\* C19: an upload answers with a count only when the whole body was read; the
\* count is the body length, which is the sum of the reads; a body within the
\* maximum that is read to its end is answered 200.
C19_UploadReportsBodyLength ==
  /\ upload.bytesReceived # -1 =>
       /\ upload.status = "200"
       /\ upload.bytesReceived = upload.body
       /\ upload.bytesReceived = SumSeq(upload.reads)
       /\ upload.body <= UploadLimit
  /\ upload.status = "200" => upload.bytesReceived = upload.body
  /\ (upload.pc = "done" /\ upload.body <= UploadLimit
        /\ SumSeq(upload.reads) = upload.body) => upload.status = "200"

\* a body of exactly the maximum size, read in several pieces, is counted
C19_Witness ==
  /\ upload.status = "200"
  /\ upload.body = UploadLimit
  /\ upload.bytesReceived = UploadLimit
  /\ Len(upload.reads) >= 2

\* the goroutines that made a call, and those whose call returned true
Calling == {i \in Callers : calls[i].pc # "off"}
ReturnedTrue == {i \in Callers : calls[i].pc = "done" /\ calls[i].ok}

\* the calls past Lock and before Unlock
InsideLock == {i \in Callers : calls[i].pc \in {"check", "record", "return"}}

\* C20: of k concurrent IsAllowed calls for a client with r requests left in
\* its window, with room under the global limit, exactly min(k, r) return
\* true; at most one call is between Lock and Unlock, and at its return the
\* map is what one undivided IsAllowed makes of the map the call found.
C20_ConcurrentCallsSerialized ==
  /\ Cardinality(InsideLock) <= 1
  /\ \A i \in Callers : calls[i].pc = "return" =>
       /\ clients = IsAllowedClients(calls[i].found, whitelist, Observed, calls[i].t,
                                     globalLimit, perClientLimit, timeWindow)
       /\ calls[i].why = IsAllowedOutcome(calls[i].found, whitelist, Observed, calls[i].t,
                                          globalLimit, perClientLimit, timeWindow)
  /\ ((\A i \in Calling : calls[i].pc = "done")
        /\ allowance.global >= Min(Cardinality(Calling), allowance.client))
       => Cardinality(ReturnedTrue) = Min(Cardinality(Calling), allowance.client)

\* three calls have returned for a client with one request left: one true
C20_Witness ==
  /\ Cardinality(Calling) = 3
  /\ \A i \in Calling : calls[i].pc = "done"
  /\ allowance.client = 1
  /\ allowance.global >= 1
  /\ Cardinality(ReturnedTrue) = 1

\* the positions a request passes through, in the order of the code
StepOrder ==
  {<<"idle", "handler">>, <<"idle", "done">>, <<"done", "handler">>,
   <<"handler", "allowed">>, <<"handler", "returned">>, <<"allowed", "active">>,
   <<"active", "returned">>, <<"returned", "done">>}

\* C21: with the gate enabled a Download or Upload request acquires its token,
\* then IsAllowed is evaluated, then ActiveTests is incremented, then the body
\* streams, then ActiveTests is decremented, then the token is released;
\* IsAllowed is not evaluated for a request the gate rejects, and the token is
\* held until after the decrement.
C21_HandlerEventsInOrder ==
  [][\A r \in TestReqs :
       LET a == reqs[r]
           b == reqs'[r]
           ip == a.kind.ip
           gate == maxReqs > 0
       IN /\ a.pc # b.pc => <<a.pc, b.pc>> \in StepOrder
          \* the gate rejects: no IsAllowed, no token
          /\ (a # b /\ b.pc = "done" /\ b.resp = "503") =>
               /\ clients' = clients /\ ret' = ret
               /\ b.tok = "none" /\ semaphore' = semaphore
          \* IsAllowed is evaluated by a request that holds its token
          /\ (a.pc = "handler" /\ b.pc \in {"allowed", "returned"}) =>
               /\ gate => a.tok = "held" /\ b.tok = "held"
               /\ ret'.ip = ip /\ (ret'.ok <=> b.pc = "allowed")
          \* the increment follows the check and precedes the body
          /\ (a.pc = "allowed" /\ b.pc = "active") =>
               /\ gate => b.tok = "held"
               /\ clients'[ip].ActiveTests = ActiveOf(ip) + 1
          \* the decrement ends the body, the token still held
          /\ (a.pc = "active" /\ b.pc = "returned") =>
               /\ gate => a.tok = "held" /\ b.tok = "held"
               /\ semaphore' = semaphore
               /\ clients'[ip].ActiveTests = ActiveOf(ip) - 1
          \* the release comes last
          /\ (a.tok = "held" /\ b.tok # "held") =>
               /\ a.pc = "returned" /\ b.pc = "done" /\ b.tok = "released"
               /\ semaphore' = semaphore - 1
               /\ clients' = clients]_vars

\* the requests IsAllowed has denied
Denied == {r \in TestReqs : reqs[r].resp = "429"}

\* C22: a Download or Upload request that IsAllowed denies is answered 429 and
\* returns at once: ActiveTests is not touched by it, it never reaches the
\* body that produces the payload, and the token it holds is released when the
\* handler has returned.
C22_DeniedRequestOnlyAnswers429 ==
  /\ [](\A r \in Denied : reqs[r].pc \in {"returned", "done"})
  /\ [][\A r \in TestReqs :
          LET a == reqs[r]
              b == reqs'[r]
          IN \* the denial itself
             /\ (a.pc = "handler" /\ b.pc # "handler" /\ ~ret'.ok) =>
                  /\ b.pc = "returned" /\ b.resp = "429"
                  /\ b.tok = a.tok /\ semaphore' = semaphore
                  /\ \A ip \in IPs :
                       ip \in DOMAIN clients' =>
                         clients'[ip].ActiveTests = ActiveOf(ip)
             \* after it, only the middleware's release
             /\ (a.resp = "429" /\ a.pc = "returned" /\ b # a) =>
                  /\ b.pc = "done" /\ b.resp = "429"
                  /\ clients' = clients
                  /\ a.tok = "held" =>
                       b.tok = "released" /\ semaphore' = semaphore - 1
                  /\ a.tok = "none" =>
                       b.tok = "none" /\ semaphore' = semaphore]_vars

\* a denied request has given back its token while the test of another
\* client is still running
C22_Witness ==
  /\ maxReqs = 2
  /\ \E r1, r2 \in TestReqs :
       /\ reqs[r1].pc = "done" /\ reqs[r1].resp = "429" /\ reqs[r1].tok = "released"
       /\ reqs[r2].pc = "active"
  /\ semaphore = 1

\* the frames a worker has sent and the loop has not written: the one in the
\* loop's hand and those in the queue
Unwritten == (IF coord = "write" THEN <<inHand>> ELSE <<>>) \o chunkChan

WorkersDone == \A i \in Workers : worker[i] \in {"empty", "sent", "dropped"}

\* C23: without cancellation and write error the streaming loop of a chunked
\* download returns, and when it returns at the closed queue every frame a
\* worker sent has been written once, in the order of arrival; up to then the
\* frames written and the frames waiting are the frames sent.
C23_CoordinatorDrainsThenReturns ==
  /\ [](coord # "writeError" => output \o Unwritten = emitted)
  /\ [](coord = "closed" =>
          /\ output = emitted
          /\ chanClosed /\ WorkersDone
          /\ \A j, k \in DOMAIN output : j # k => output[j].index # output[k].index)
  /\ <>(coord = "closed" \/ coord = "writeError" \/ cancelled \/ Crashed)

\* the loop has returned after writing three frames that arrived out of
\* index order
C23_Witness ==
  /\ coord = "closed"
  /\ ~cancelled
  /\ Len(output) = 3
  /\ output[1].index > output[2].index

\* C24: once the request is cancelled the streaming loop takes no further
\* frame from the queue: a write in progress ends, and at its next select the
\* loop returns, whatever is waiting in the queue.
C24_CancelObservedAtDequeue ==
  [][(cancelled /\ coord = "select") =>
       /\ coord' \in {"select", "cancelled", "closed"}
       /\ output' = output
       /\ chunkChan # <<>> => coord' # "closed"]_vars

\* downloadSingle has returned
SingleOver == single.pc \in {"done", "cancelled", "writeError"}

\* C25: in a single-stream download the context is looked at after every
\* block: once it is done the loop writes at most one more block, of at most
\* BufferLen bytes, and returns; a failed write ends the loop, and after the
\* return nothing is written.
C25_SingleStopsAfterOneBlock ==
  [][/\ (single.ctxDone /\ single.pc = "loop" /\ single' # single) =>
          /\ single'.pc \in {"cancelled", "writeError"}
          /\ Len(single'.blocks) <= Len(single.blocks) + 1
          /\ Len(single'.blocks) > Len(single.blocks) =>
               /\ single'.blocks[Len(single'.blocks)] <= BufferLen
               /\ SubSeq(single'.blocks, 1, Len(single.blocks)) = single.blocks
     /\ (single.pc = "loop" /\ single'.pc = "writeError") =>
          Len(single'.blocks) <= Len(single.blocks) + 1
     /\ SingleOver => single' = single]_vars

\* the client went away after the first block of a longer download: one more
\* block was written and the rest was not
C25_Witness ==
  /\ single.pc = "cancelled"
  /\ Len(single.blocks) = 2
  /\ single.written + BufferLen <= single.size

\* C26: every generation worker ends and the closer then closes the queue,
\* also when the streaming loop has already returned: the queue has room for
\* every frame, so no send waits for the loop; the queue is closed only when
\* all workers are done, and nothing is sent once it is closed.
C26_WorkersAndCloserFinish ==
  /\ [](/\ Len(chunkChan) <= numChunks
        /\ Len(emitted) <= numChunks
        /\ chanClosed => WorkersDone)
  /\ [][chanClosed => (emitted' = emitted /\ worker' = worker /\ chanClosed')]_vars
  /\ <>(Crashed \/ (WorkersDone /\ chanClosed))
  /\ (CoordDone ~> (Crashed \/ (WorkersDone /\ chanClosed)))

\* the loop returned on a cancellation with nothing written; afterwards one
\* worker still sent its frame, another gave up, and the queue was closed
C26_Witness ==
  /\ coord = "cancelled"
  /\ output = <<>>
  /\ chanClosed
  /\ \E i, j \in Workers : worker[i] = "sent" /\ worker[j] = "dropped"
  /\ chunkChan # <<>>

\* C27: every frame written carries in its header the ordinal of the worker
\* that produced it and the number of payload bytes that follow.
C27_HeaderMatchesFrame ==
  \A j \in DOMAIN output :
    /\ output[j].index = output[j].chunkID
    /\ output[j].length = output[j].size

\* what a query string asks for: the number it spells, or 0 when it is
\* absent or spells none
Asked(str) == IF str = <<>> \/ ParseInt(str).err THEN 0 ELSE ParseInt(str).n

\* a parameter limited to lo .. hi, with a default for what is not positive
Clamped(v, dflt, hi) == IF v <= 0 THEN dflt ELSE IF v > hi THEN hi ELSE v

\* C28: the parallelism of a download is in 1 .. 10: 1 when the parameter is
\* absent or no positive integer, 10 when more than 10 is asked for; size and
\* minimum chunk size resolve each from its own parameter.
C28_ParallelismClamped ==
  params.pc \in {"parsed", "chunked", "single"} =>
    /\ params.chunks \in 1 .. ChunksCap
    /\ params.chunks = Clamped(Asked(params.chunksStr), DefaultChunks, ChunksCap)
    /\ params.size = IF Asked(params.sizeStr) > 0 THEN Asked(params.sizeStr)
                     ELSE DefaultSize
    /\ params.chunkSize = IF Asked(params.chunkSizeStr) > 0 THEN Asked(params.chunkSizeStr)
                          ELSE DefaultChunkSize

Max(x, y) == IF x > y THEN x ELSE y

\* the range the claim gives worker i: [OwnedLo(i), OwnedHi(i))
OwnedLo(i) == i * Max(chunkSize, totalSize \div numChunks)
OwnedHi(i) == Min((i + 1) * Max(chunkSize, totalSize \div numChunks), totalSize)

\* the workers that have computed their range and found it not empty
NonEmpty == {i \in Workers : worker[i] \in {"sent", "dropped", "panic"}}

\* C29: with c = max(chunkSize, totalSize / numChunks) a worker that has run
\* has computed the range [i*c, min((i+1)*c, totalSize)): it returns without a
\* frame when that range is empty and else produces a frame of its length; the
\* ranges of two workers do not overlap and follow on each other.
C29_RangesPartitionTotal ==
  /\ \A i \in Workers : worker[i] # "run" =>
       /\ chunkStart(i, totalSize, numChunks, chunkSize) = OwnedLo(i)
       /\ chunkEnd(i, totalSize, numChunks, chunkSize) = OwnedHi(i)
       /\ worker[i] = "empty" <=> OwnedHi(i) <= OwnedLo(i)
       /\ worker[i] = "sent" =>
            \E j \in DOMAIN emitted : /\ emitted[j].chunkID = i
                                      /\ emitted[j].size = OwnedHi(i) - OwnedLo(i)
  /\ \A i, k \in NonEmpty : i < k =>
       /\ chunkEnd(i, totalSize, numChunks, chunkSize)
            <= chunkStart(k, totalSize, numChunks, chunkSize)
       /\ k = i + 1 => chunkEnd(i, totalSize, numChunks, chunkSize)
                         = chunkStart(k, totalSize, numChunks, chunkSize)

\* the WebSocket requests, from the handshake to the end of the connection
Sockets == {r \in TestReqs : reqs[r].kind.route = "ws" /\ reqs[r].kind.upgrade}

\* C30: a WebSocket upgrade request takes no token and is never answered 503,
\* however many tokens are held; none of its steps, from arrival to the close
\* of the connection, changes the number of tokens outstanding, which is the
\* number of other requests holding one.
C30_UpgradeBypassesGate ==
  /\ [](/\ \A r \in Sockets : reqs[r].tok = "none" /\ reqs[r].resp # "503"
        /\ semaphore = Cardinality({r \in TestReqs \ Sockets : reqs[r].tok = "held"}))
  /\ [][\A r \in TestReqs :
          (reqs'[r] # reqs[r] /\ reqs'[r].kind.route = "ws" /\ reqs'[r].kind.upgrade) =>
             /\ semaphore' = semaphore
             /\ reqs[r].pc \in {"idle", "done"} => reqs'[r].pc = "handler"]_vars

\* a WebSocket connection is open while the only token is held by a download
C30_Witness ==
  /\ maxReqs = 1
  /\ semaphore = 1
  /\ \E r1, r2 \in TestReqs :
       /\ reqs[r1].kind.route = "ws" /\ reqs[r1].pc = "upgraded"
       /\ reqs[r2].kind.route = "download" /\ reqs[r2].tok = "held"

\* C31: a failure inside a generation worker ends at most its own download:
\* no worker's failure takes the process down.
C31_WorkerFailureStaysInRequest ==
  /\ ~Crashed
  /\ \A i \in Workers : worker[i] # "panic"

\* the timestamps of a record, or none when there is no record
StampsOf(cs, ip) == IF ip \in DOMAIN cs THEN cs[ip].Requests ELSE <<>>

\* the timestamps IsAllowed has kept: those of the record it leaves, without
\* the one it has just appended
KeptBy(cs, ip, ok) ==
  IF ok THEN SubSeq(StampsOf(cs, ip), 1, Len(StampsOf(cs, ip)) - 1) ELSE StampsOf(cs, ip)

\* a call of IsAllowed that got as far as pruning
Pruning(ip) == IsAllowed(ip) /\ ret'.why \in {"ok", "perClient", "global"}

\* C32 as stated: IsAllowed drops the timestamps older than now - timeWindow
\* and keeps one that is exactly timeWindow old, which still counts.
C32_PruneStrictlyOlder ==
  [][Pruning(Observed) =>
       /\ KeptBy(clients', Observed, ret'.ok)
            = SelectSeq(StampsOf(clients, Observed), LAMBDA s : s >= now - timeWindow)
       /\ ret'.why = "perClient" <=>
            Len(SelectSeq(StampsOf(clients, Observed), LAMBDA s : s >= now - timeWindow))
              >= perClientLimit]_vars

\* C32 amended: IsAllowed keeps the timestamps newer than now - timeWindow; one
\* that is exactly timeWindow old is dropped and counts no longer, in the
\* record's count as in the aggregate.
C32_PruneNotNewer ==
  [][Pruning(Observed) =>
       /\ KeptBy(clients', Observed, ret'.ok)
            = SelectSeq(StampsOf(clients, Observed), LAMBDA s : s > now - timeWindow)
       /\ \A j \in DOMAIN StampsOf(clients', Observed) :
            StampsOf(clients', Observed)[j] # now - timeWindow
       /\ ret'.why = "perClient" <=>
            Len(SelectSeq(StampsOf(clients, Observed), LAMBDA s : s > now - timeWindow))
              >= perClientLimit
       /\ ret'.why = "global" =>
            getTotalActiveRequests(clients', now, timeWindow) >= globalLimit]_vars

\* with one request per window, a request made exactly one window after the
\* first is allowed, and the first is gone from the record
C32_Witness ==
  /\ perClientLimit = 1
  /\ allowLog = <<0, timeWindow>>
  /\ now = timeWindow
  /\ StampsOf(clients, Observed) = <<timeWindow>>

\* TotalRequests of a record, 0 when there is no record yet
TotalOf(cs, ip) == IF ip \in DOMAIN cs THEN cs[ip].TotalRequests ELSE 0

\* C33: an allowed request of a non-whitelisted client appends one timestamp
\* equal to now to the client's window, adds one to its TotalRequests, sets its
\* LastSeen to now and clears its block flag; other records, the whitelist and
\* the limits stay as they were. TotalRequests never decreases and equals the
\* number of allow decisions made for the client.
C33_AllowRecordsOneRequest ==
  /\ [][IsAllowed(Observed) /\ ret'.ok /\ Observed \notin whitelist =>
          /\ clients'[Observed].Requests
               = Append(SelectSeq(StampsOf(clients, Observed),
                                  LAMBDA s : s > now - timeWindow), now)
          /\ clients'[Observed].TotalRequests = TotalOf(clients, Observed) + 1
          /\ clients'[Observed].LastSeen = now
          /\ ~clients'[Observed].IsBlocked
          /\ DOMAIN clients' = DOMAIN clients \cup {Observed}
          /\ \A other \in DOMAIN clients \ {Observed} : clients'[other] = clients[other]
          /\ whitelist' = whitelist
          /\ <<globalLimit, perClientLimit, timeWindow>>'
               = <<globalLimit, perClientLimit, timeWindow>>]_vars
  /\ [][\A ip \in DOMAIN clients \cap DOMAIN clients' :
          clients'[ip].TotalRequests >= clients[ip].TotalRequests]_vars
  /\ [](TotalOf(clients, Observed) = Len(allowLog))

\* a second request allowed after a cooldown has run out, with another
\* client's record in the map
C33_Witness ==
  /\ ret.ip = Observed /\ ret.ok
  /\ Len(allowLog) = 2
  /\ clients[Observed].TotalRequests = 2
  /\ clients[Observed].BlockedUntil # ZeroTime
  /\ ~clients[Observed].IsBlocked
  /\ DOMAIN clients # {Observed}

\* the limits a call has read all belong to the configuration cfg
ReadFrom(me, cfg) ==
  /\ me.w \in {Unread, cfg[3]}
  /\ me.pl \in {Unread, cfg[2]}
  /\ me.gl \in {Unread, cfg[1]}
  /\ me.w2 \in {Unread, cfg[3]}

\* a call that has its answer
Decided(me) == me.pc \in {"return", "done"}

\* the in-window count of the caller's record at the time of its call, under
\* the new configuration
CountUnderNew(me) == Len(validRequests(clients[me.ip].Requests, me.t, update.new[3]))

\* C34 as stated: every IsAllowed decision uses all three old or all three new
\* limits, a decision that starts after UpdateLimits has returned uses the new
\* ones, and each such allow leaves the client's in-window count at most the new
\* perClientLimit.
C34_UpdateAtomicEveryAllow ==
  \A r \in Readers :
    LET me == update.rd[r]
    IN /\ Decided(me) => ReadFrom(me, update.old) \/ ReadFrom(me, update.new)
       /\ Decided(me) /\ me.after => ReadFrom(me, update.new)
       /\ me.pc = "return" /\ me.after /\ me.why \in {"ok", "whitelist"} =>
            CountUnderNew(me) <= update.new[2]

\* C34 amended: every IsAllowed decision is the one IsAllowed makes with all
\* three old or all three new limits, one that starts after UpdateLimits has
\* returned is made with the new ones, and each such allow of a client that is
\* not whitelisted leaves its in-window count at most the new perClientLimit.
C34_UpdateAtomic ==
  \A r \in Readers :
    LET me == update.rd[r]
        cfg == IF me.after THEN update.new ELSE update.old
    IN /\ Decided(me) => ReadFrom(me, cfg)
       /\ me.pc = "return" =>
            /\ me.why = IsAllowedOutcome(me.found, whitelist, me.ip, me.t, cfg[1], cfg[2], cfg[3])
            /\ clients = IsAllowedClients(me.found, whitelist, me.ip, me.t, cfg[1], cfg[2], cfg[3])
       /\ me.pc = "return" /\ me.after /\ me.why = "ok" =>
            CountUnderNew(me) <= update.new[2]

\* one call decided under the old limits and allowed, and a later call of the
\* same client denied by the per-client limit that UpdateLimits has lowered
C34_Witness ==
  \E r1 \in Readers, r2 \in Readers :
    /\ update.rd[r1].pc = "done" /\ ~update.rd[r1].after /\ update.rd[r1].why = "ok"
    /\ update.rd[r1].pl = update.old[2]
    /\ update.rd[r2].pc = "done" /\ update.rd[r2].after /\ update.rd[r2].why = "perClient"
    /\ update.rd[r2].pl = update.new[2]
    /\ update.rd[r2].ip = update.rd[r1].ip
    /\ update.new[2] < update.old[2]

\* a step of an operation other than AddToWhitelist and RemoveFromWhitelist
OtherOperation ==
  \/ \E ip \in IPs : IsAllowed(ip) \/ IncrementActiveTests(ip) \/ DecrementActiveTests(ip)
  \/ \E c \in Configs : UpdateLimits(c[1], c[2], c[3])
  \/ GetStatsCall
  \/ cleanupExpiredEntries

\* C35 as stated: only AddToWhitelist and RemoveFromWhitelist change the
\* whitelist, Add is idempotent, Remove of an absent identifier is a no-op, and
\* Add followed by Remove of the same identifier restores the previous whitelist.
C35_AddThenRemoveRestores ==
  /\ [][OtherOperation => whitelist' = whitelist]_vars
  /\ [](\A ip \in IPs :
          /\ addToWhitelist(addToWhitelist(whitelist, ip), ip) = addToWhitelist(whitelist, ip)
          /\ ip \notin whitelist => removeFromWhitelist(whitelist, ip) = whitelist
          /\ removeFromWhitelist(addToWhitelist(whitelist, ip), ip) = whitelist)

\* C35 amended: only AddToWhitelist and RemoveFromWhitelist change the
\* whitelist, Add is idempotent, Remove of an absent identifier is a no-op, and
\* Add followed by Remove of the same identifier leaves the previous whitelist
\* without that identifier: the previous whitelist when the identifier was
\* not on it.
C35_WhitelistOwnOperations ==
  /\ [][OtherOperation => whitelist' = whitelist]_vars
  /\ [][\A ip \in Whitelistable :
          /\ AddToWhitelist(ip) => whitelist' = whitelist \cup {ip}
          /\ RemoveFromWhitelist(ip) => whitelist' = whitelist \ {ip}]_vars
  /\ [](\A ip \in IPs :
          /\ addToWhitelist(addToWhitelist(whitelist, ip), ip) = addToWhitelist(whitelist, ip)
          /\ ip \notin whitelist => removeFromWhitelist(whitelist, ip) = whitelist
          /\ removeFromWhitelist(addToWhitelist(whitelist, ip), ip) = whitelist \ {ip})

\* a whitelisted client has been served twice, has a test running and has been
\* counted by GetStats, and is still whitelisted
C35_Witness ==
  /\ whitelist = Whitelistable
  /\ now = LongSleep
  /\ \E ip \in DOMAIN clients \cap whitelist :
       clients[ip].TotalRequests = 2 /\ clients[ip].ActiveTests = 1
  /\ stats # NoStats

\* C36: the gate's decision for a request without the websocket header depends
\* on the tokens outstanding only, not on the client or on the whitelist: with
\* a pool of N > 0 tokens it rejects exactly when all N are held, the request
\* of a whitelisted client included.
C36_GateIgnoresClient ==
  [][\A r \in TestReqs, k \in TestKinds :
       Arrive(r, k) =>
         /\ (reqs'[r].resp = "503") = (maxReqs > 0 /\ semaphore >= maxReqs)
         /\ (reqs'[r].tok = "held") = (maxReqs > 0 /\ semaphore < maxReqs)
         /\ \A k2 \in TestKinds :
              routeDecision(k2, semaphore, maxReqs) = routeDecision(k, semaphore, maxReqs)
         /\ reqs'[r].resp = "503" => reqs'[r].pc = "done" /\ clients' = clients]_vars

\* a whitelisted client turned away with 503 while every token is held
C36_Witness ==
  /\ maxReqs > 0 /\ semaphore = maxReqs
  /\ \E r \in Reqs :
       /\ reqs[r].kind.ip \in whitelist
       /\ reqs[r].resp = "503"

\* a client map with the active-test counts replaced by those of f
WithTests(cs, f) == [k \in DOMAIN cs |-> [cs[k] EXCEPT !.ActiveTests = f[k]]]

\* a client map without its active-test counts
SansTests(cs) == WithTests(cs, [k \in DOMAIN cs |-> 0])

\* C37: IsAllowed gives the same result and the same window and block updates
\* in two limiter states that differ in the active-test counts only, and
\* IncrementActiveTests and DecrementActiveTests change nothing but the
\* active-test count of an existing record.
C37_AdmissionIgnoresActiveTests ==
  /\ [](\A ip \in IPs : \A f \in [DOMAIN clients -> 0 .. MaxActive] :
          LET other == WithTests(clients, f)
          IN /\ IsAllowedOutcome(other, whitelist, ip, now, globalLimit, perClientLimit, timeWindow)
                  = IsAllowedOutcome(clients, whitelist, ip, now, globalLimit, perClientLimit, timeWindow)
             /\ SansTests(IsAllowedClients(other, whitelist, ip, now, globalLimit,
                                           perClientLimit, timeWindow))
                  = SansTests(IsAllowedClients(clients, whitelist, ip, now, globalLimit,
                                               perClientLimit, timeWindow)))
  /\ [][\A ip \in IPs :
          IncrementActiveTests(ip) \/ DecrementActiveTests(ip) =>
            \A k \in DOMAIN clients :
              /\ k \in DOMAIN clients'
              /\ [clients'[k] EXCEPT !.ActiveTests = 0] = [clients[k] EXCEPT !.ActiveTests = 0]
              /\ k # ip => clients'[k] = clients[k]]_vars

\* a client in its cooldown with a request in its window and a test running,
\* beside a client with a test running
C37_Witness ==
  /\ DOMAIN clients = IPs
  /\ \A k \in IPs : clients[k].ActiveTests = 1
  /\ clients[Observed].IsBlocked /\ now < clients[Observed].BlockedUntil
  /\ clients[Observed].Requests # <<>>

\* C38: a request of a whitelisted client adds no timestamp to any window and
\* leaves the aggregate in-window total as it was, so the decision for every
\* other client, now and at any later instant, is the one it would have been
\* without that request.
C38_WhitelistedTrafficUncounted ==
  [][\A ip \in IPs :
       IsAllowed(ip) /\ ip \in whitelist =>
         /\ ret'.ok
         /\ \A k \in IPs : StampsOf(clients', k) = StampsOf(clients, k)
         /\ \A t \in {s \in Instants : s >= now} :
              /\ getTotalActiveRequests(clients', t, timeWindow)
                   = getTotalActiveRequests(clients, t, timeWindow)
              /\ \A other \in IPs \ {ip} :
                   IsAllowedOutcome(clients', whitelist, other, t, globalLimit,
                                    perClientLimit, timeWindow)
                     = IsAllowedOutcome(clients, whitelist, other, t, globalLimit,
                                        perClientLimit, timeWindow)]_vars

\* under a global limit of one, a client is allowed after a whitelisted
\* client has been served twice at the same instant
C38_Witness ==
  /\ globalLimit = 1
  /\ whitelist # {}
  /\ \E ip \in whitelist \cap DOMAIN clients :
       /\ clients[ip].TotalRequests = 2
       /\ clients[ip].Requests = <<>>
       /\ clients[ip].LastSeen = now
  /\ ret.ip = Observed /\ ret.ok
  /\ allowLog = <<now>>

\* C39: a record the reaper deletes holds no unexpired block and no timestamp
\* still inside the window, so no request denied before a pass of the reaper
\* is allowed after it.
C39_ReapedRecordsAreSpent ==
  [][cleanupExpiredEntries =>
       /\ \A k \in DOMAIN clients \ DOMAIN clients' :
            /\ ~(clients[k].IsBlocked /\ now < clients[k].BlockedUntil)
            /\ validRequests(clients[k].Requests, now, timeWindow) = <<>>
       /\ \A ip \in IPs :
            Allowed(IsAllowedOutcome(clients', whitelist, ip, now, globalLimit,
                                     perClientLimit, timeWindow))
              => Allowed(IsAllowedOutcome(clients, whitelist, ip, now, globalLimit,
                                          perClientLimit, timeWindow))]_vars

\* the frame a worker has built for chunk i
FrameOf(i) ==
  LET size == chunkLen(i, totalSize, numChunks, chunkSize)
  IN [index |-> frameIndex(i), length |-> frameLength(size), size |-> size, chunkID |-> i]

\* C40: every write to the transport is made by the coordinator and carries
\* one whole frame, the header and the payload of one chunk; a worker's step
\* never changes the output, and the stream is a sequence of whole frames of
\* different chunks.
C40_CoordinatorAloneWrites ==
  /\ [][output' # output =>
          /\ coord = "write"
          /\ \E ok \in BOOLEAN : CoordWrite(ok)
          /\ output' = Append(output, inHand)
          /\ inHand = FrameOf(inHand.chunkID)]_vars
  /\ [][\A i \in Workers : RunWorker(i) => output' = output]_vars
  /\ [](\A j \in DOMAIN output :
          /\ output[j].chunkID \in Workers
          /\ output[j] = FrameOf(output[j].chunkID)
          /\ \A k \in DOMAIN output : k # j => output[k].chunkID # output[j].chunkID)

\* a finished download whose stream holds two whole frames, the later chunk
\* first
C40_Witness ==
  /\ coord = "closed"
  /\ Len(output) = 2
  /\ output[1].chunkID > output[2].chunkID
====
